---- MODULE Spec2Model ----
(***************************************************************************)
(* Model of the evaluation table of the Ordsok client (latest revision of  *)
(* App.tsx): the React state of the App component, the handlers that       *)
(* change it, and the derived values evaluationTable and the table cells.  *)
(*                                                                         *)
(* Strings are sequences of UTF-16 code units, so formatting, parsing and  *)
(* lexical order are computed and not assumed.  JavaScript numbers are     *)
(* records: exact rationals n/d, NaN and the infinities.  Counts, totals   *)
(* and years that the code only adds and compares are TLA+ integers.       *)
(***************************************************************************)
EXTENDS Integers, Sequences, FiniteSets

(***************************************************************************)
(* Bounds of the model.                                                    *)
(***************************************************************************)
MaxCount == 1
MaxInFlight == 1
MaxOverlapping == 2
MaxPagerDocs == 201

(***************************************************************************)
(* JavaScript values.                                                      *)
(***************************************************************************)
JsUndefined == [tag |-> "undefined", chars |-> <<>>]
JsNull == [tag |-> "null", chars |-> <<>>]
JsString(s) == [tag |-> "string", chars |-> s]

NaN == [kind |-> "NaN", n |-> 0, d |-> 1]
PosInfinity == [kind |-> "Infinity", n |-> 1, d |-> 1]
NegInfinity == [kind |-> "Infinity", n |-> -1, d |-> 1]
Num(i) == [kind |-> "num", n |-> i, d |-> 1]

RECURSIVE GCD(_, _)
GCD(a, b) == IF b = 0 THEN a ELSE GCD(b, a % b)

Abs(i) == IF i < 0 THEN -i ELSE i

\* the rational n/d with d # 0, in lowest terms with a positive denominator
Rat(n, d) ==
  LET g == GCD(Abs(n), Abs(d))
      s == IF d < 0 THEN -1 ELSE 1
  IN [kind |-> "num", n |-> s * (n \div g), d |-> s * (d \div g)]

NumberIsNaN(x) == x.kind = "NaN"
NumberIsFinite(x) == x.kind = "num"

\* a / b of two finite numbers
JsDiv(a, b) ==
  IF b.n = 0
    THEN IF a.n = 0 THEN NaN ELSE IF a.n > 0 THEN PosInfinity ELSE NegInfinity
    ELSE Rat(a.n * b.d, a.d * b.n)

\* a * b
JsMul(a, b) ==
  IF a.kind = "num" /\ b.kind = "num" THEN Rat(a.n * b.n, a.d * b.d)
  ELSE IF a.kind = "NaN" \/ b.kind = "NaN" \/ a.n = 0 \/ b.n = 0 THEN NaN
  ELSE IF (a.n > 0) = (b.n > 0) THEN PosInfinity ELSE NegInfinity

\* the sign of a - b as the sort sees it: NaN counts as 0
SignOfDifference(a, b) ==
  IF a.kind = "NaN" \/ b.kind = "NaN" THEN 0
  ELSE IF a.kind = "Infinity" /\ b.kind = "Infinity"
    THEN (IF a.n = b.n THEN 0 ELSE a.n)
  ELSE IF a.kind = "Infinity" THEN a.n
  ELSE IF b.kind = "Infinity" THEN -b.n
  ELSE LET diff == a.n * b.d - b.n * a.d
       IN IF diff > 0 THEN 1 ELSE IF diff < 0 THEN -1 ELSE 0

\* x || dflt for a number x
NumberOr(x, dflt) ==
  IF x.kind = "NaN" \/ (x.kind = "num" /\ x.n = 0) THEN dflt ELSE x

MathFloor(x) == IF x.kind = "num" THEN Num(x.n \div x.d) ELSE x

MathMax(a, b) ==
  IF a.kind = "NaN" \/ b.kind = "NaN" THEN NaN
  ELSE IF SignOfDifference(a, b) >= 0 THEN a ELSE b

(***************************************************************************)
(* Strings: code units, string literals of the source, number <-> string.  *)
(***************************************************************************)
K_total == <<116, 111, 116, 97, 108>>          \* 'total'
K_row == <<114, 111, 119>>                     \* 'row'
K_dhlabid == <<100, 104, 108, 97, 98, 105, 100>>   \* 'dhlabid'
K_title == <<116, 105, 116, 108, 101>>         \* 'title'
K_authors == <<97, 117, 116, 104, 111, 114, 115>>  \* 'authors'
K_year == <<121, 101, 97, 114>>                \* 'year'
SuffixCount == <<95, 95, 99, 111, 117, 110, 116>>            \* '__count'
SuffixPercent == <<95, 95, 112, 101, 114, 99, 101, 110, 116>>  \* '__percent'
SuffixPercentLabel == <<32, 37>>               \* ' %'
Hyphen == <<45>>                               \* '-'

IsDigit(c) == c >= 48 /\ c <= 57

IsDigits(s) == Len(s) > 0 /\ \A i \in 1..Len(s) : IsDigit(s[i])

RECURSIVE DigitsValue(_)
DigitsValue(s) ==
  IF Len(s) = 0 THEN 0
  ELSE 10 * DigitsValue(SubSeq(s, 1, Len(s) - 1)) + (s[Len(s)] - 48)

RECURSIVE NatToString(_)
NatToString(i) ==
  IF i < 10 THEN <<48 + i>> ELSE NatToString(i \div 10) \o <<48 + (i % 10)>>

\* `${i}` for an integer i
NumberToString(i) == IF i < 0 THEN Hyphen \o NatToString(-i) ELSE NatToString(i)

\* Number(s) for a string s that is empty (0), an optionally signed decimal
\* literal, or no numeric literal at all (NaN)
RECURSIVE PowerOfTen(_)
PowerOfTen(k) == IF k = 0 THEN 1 ELSE 10 * PowerOfTen(k - 1)

\* the value of an unsigned decimal literal: digits, or digits '.' digits
UnsignedToNumber(s) ==
  LET dots == {i \in 1..Len(s) : s[i] = 46}
      dot == CHOOSE i \in dots : TRUE
      whole == SubSeq(s, 1, dot - 1)
      fraction == SubSeq(s, dot + 1, Len(s))
  IN IF IsDigits(s) THEN Num(DigitsValue(s))
     ELSE IF Cardinality(dots) = 1 /\ IsDigits(whole) /\ IsDigits(fraction)
       THEN Rat(DigitsValue(whole) * PowerOfTen(Len(fraction)) + DigitsValue(fraction),
                PowerOfTen(Len(fraction)))
     ELSE NaN

Negate(x) == IF x.kind = "num" THEN [x EXCEPT !.n = -x.n] ELSE x

StringToNumber(s) ==
  IF Len(s) = 0 THEN Num(0)
  ELSE IF s[1] = 45 THEN Negate(UnsignedToNumber(Tail(s)))
  ELSE UnsignedToNumber(s)

\* Number(v)
JsNumber(v) ==
  CASE v.tag = "undefined" -> NaN
    [] v.tag = "null" -> Num(0)
    [] v.tag = "string" -> StringToNumber(v.chars)

\* a < b in the order of Array.prototype.sort() without comparator:
\* code unit by code unit, a proper prefix first
RECURSIVE CodeUnitLess(_, _)
CodeUnitLess(a, b) ==
  IF Len(b) = 0 THEN FALSE
  ELSE IF Len(a) = 0 THEN TRUE
  ELSE IF a[1] # b[1] THEN a[1] < b[1]
  ELSE CodeUnitLess(Tail(a), Tail(b))

(***************************************************************************)
(* Objects and Maps as functions.                                          *)
(***************************************************************************)
EmptyMap == [k \in {} |-> 0]

Get(f, k, dflt) == IF k \in DOMAIN f THEN f[k] ELSE dflt

Put(f, k, v) == [x \in (DOMAIN f) \cup {k} |-> IF x = k THEN v ELSE f[x]]

RECURSIVE SumOver(_, _)
SumOver(f, S) ==
  IF S = {} THEN 0
  ELSE LET k == CHOOSE x \in S : TRUE IN f[k] + SumOver(f, S \ {k})

\* the strings of S as a sequence in code unit order
RECURSIVE SortStrings(_)
SortStrings(S) ==
  IF S = {} THEN <<>>
  ELSE LET m == CHOOSE x \in S : \A y \in S \ {x} : CodeUnitLess(x, y)
       IN <<m>> \o SortStrings(S \ {m})

(***************************************************************************)
(* Arrays.  Array.prototype.sort(compare) is a stable sort: the engine     *)
(* takes the run the array starts with (reversed when it descends          *)
(* strictly) and puts the elements after it in place by binary insertion.  *)
(* That is the whole of the sort for an array of fewer than 64 elements    *)
(* and for an array that is one run.  The comparator is handed over as the *)
(* function cmp[<<a, b>>] of its results.                                  *)
(***************************************************************************)
RECURSIVE BinarySearch(_, _, _, _, _)
BinarySearch(sorted, pivot, cmp, left, right) ==
  IF left >= right THEN left
  ELSE LET mid == left + ((right - left) \div 2)
       IN IF cmp[<<pivot, sorted[mid + 1]>>] < 0
            THEN BinarySearch(sorted, pivot, cmp, left, mid)
            ELSE BinarySearch(sorted, pivot, cmp, mid + 1, right)

RECURSIVE InsertionSort(_, _, _, _)
InsertionSort(arr, cmp, i, sorted) ==
  IF i > Len(arr) THEN sorted
  ELSE LET pos == BinarySearch(sorted, arr[i], cmp, 0, Len(sorted))
       IN InsertionSort(arr, cmp, i + 1,
            SubSeq(sorted, 1, pos) \o <<arr[i]>> \o SubSeq(sorted, pos + 1, Len(sorted)))

\* the run at the start of arr: its length and whether it descends
CountRun(arr, cmp) ==
  LET descending == Len(arr) >= 2 /\ cmp[<<arr[2], arr[1]>>] < 0
      breaks == {k \in 3..Len(arr) :
                   IF descending THEN cmp[<<arr[k], arr[k - 1]>>] >= 0
                                 ELSE cmp[<<arr[k], arr[k - 1]>>] < 0}
  IN [length |-> IF Len(arr) < 2 THEN Len(arr)
                 ELSE IF breaks = {} THEN Len(arr)
                 ELSE (CHOOSE k \in breaks : \A m \in breaks : k <= m) - 1,
      descending |-> descending]

ArraySort(arr, cmp) ==
  LET run == CountRun(arr, cmp)
      ascending == IF run.descending
                     THEN [i \in 1..run.length |-> arr[run.length + 1 - i]]
                     ELSE SubSeq(arr, 1, run.length)
  IN InsertionSort(arr, cmp, run.length + 1, ascending)

Range(seq) == {seq[i] : i \in 1..Len(seq)}

\* arr.filter(...), keep being the set of the elements that pass
ArrayFilter(arr, keep) == SelectSeq(arr, LAMBDA r : r \in keep)

(***************************************************************************)
(* a.localeCompare(b, 'nb') on the alphabet of the model: digits before    *)
(* letters, letters without regard to case, then ae, o-slash, a-ring; on   *)
(* a tie of the letters a lower case letter goes before its upper case.    *)
(***************************************************************************)
IsUpper(c) == (c >= 65 /\ c <= 90) \/ c \in {198, 216, 197}

CollationWeight(c) ==
  IF IsDigit(c) THEN 100 + (c - 48)
  ELSE IF c >= 97 /\ c <= 122 THEN 200 + (c - 97)
  ELSE IF c >= 65 /\ c <= 90 THEN 200 + (c - 65)
  ELSE IF c \in {230, 198} THEN 226
  ELSE IF c \in {248, 216} THEN 227
  ELSE IF c \in {229, 197} THEN 228
  ELSE c % 100

RECURSIVE CompareWeights(_, _, _)
CompareWeights(a, b, tertiary) ==
  IF Len(a) = 0 /\ Len(b) = 0 THEN 0
  ELSE IF Len(a) = 0 THEN -1
  ELSE IF Len(b) = 0 THEN 1
  ELSE LET wa == IF tertiary THEN (IF IsUpper(a[1]) THEN 1 ELSE 0)
                 ELSE CollationWeight(a[1])
           wb == IF tertiary THEN (IF IsUpper(b[1]) THEN 1 ELSE 0)
                 ELSE CollationWeight(b[1])
       IN IF wa < wb THEN -1
          ELSE IF wa > wb THEN 1
          ELSE CompareWeights(Tail(a), Tail(b), tertiary)

LocaleCompare(a, b) ==
  LET primary == CompareWeights(a, b, FALSE)
  IN IF primary # 0 THEN primary ELSE CompareWeights(a, b, TRUE)

(***************************************************************************)
(* The state of the App component.                                         *)
(*   evaluateData     [present, entries]: null, or the entries             *)
(*                    [docId, topics] of the response in Object.entries    *)
(*                    order; topics maps a word-group name to its count    *)
(*   corpusUrns       the URNs of the active corpus, an array of strings   *)
(*   corpusMetaById,  maps from a document id to a CorpusMeta              *)
(*   corpusMetaByUrn  [title, authors, year]                               *)
(*   corpusMessage    the message under the corpus file input: the empty   *)
(*                    string, or the parts of 'Importerte n URN-er ...'    *)
(*   evaluateStatus   the status message under the evaluate button         *)
(*   evaluateInFlight the number of evaluate requests awaiting an answer   *)
(*   evaluateLatest   where the evaluate request issued last stands:       *)
(*                    "none" issued, "inFlight", "shown" (it settled and   *)
(*                    nothing settled after it) or "overwritten" (an       *)
(*                    earlier request settled after it).  The program      *)
(*                    keeps no such record; it is here for the properties. *)
(*   tableMemo,       the values the evaluationTable and chartSeries       *)
(*   chartMemo        callbacks of useMemo read when they last ran         *)
(***************************************************************************)
VARIABLES evaluateData, evaluateStatus, evaluateInFlight, evaluateLatest, corpusUrns,
          corpusMessage, corpusMetaById, corpusMetaByUrn, sortKey, sortDir, totalThreshold,
          aggregateByYear, yearBinSize, aggregatePercent, pageSize, pageIndex,
          hiddenSeries, tableMemo, chartMemo

vars == <<evaluateData, evaluateStatus, evaluateInFlight, evaluateLatest, corpusUrns,
          corpusMessage, corpusMetaById, corpusMetaByUrn, sortKey, sortDir, totalThreshold,
          aggregateByYear, yearBinSize, aggregatePercent, pageSize, pageIndex,
          hiddenSeries, tableMemo, chartMemo>>

NullData == [present |-> FALSE, entries |-> <<>>]
Data(entries) == [present |-> TRUE, entries |-> entries]

(***************************************************************************)
(* evaluationTable: topics, rowsWithTotals, binSize, getYearLabel.         *)
(***************************************************************************)
\* the keys of an object whose keys are no array indices, in some order
ObjectKeys(obj) == SortStrings(DOMAIN obj)

AllTopicKeys(entries) == UNION {DOMAIN entries[i].topics : i \in 1..Len(entries)}

\* SortedTopics in descending order
SortedTopicsDescending(entries) ==
  LET ascending == SortStrings(AllTopicKeys(entries))
  IN [i \in 1..Len(ascending) |-> ascending[Len(ascending) + 1 - i]]

SortedTopics(entries) == SortStrings(AllTopicKeys(entries))

RowsWithTotals(entries) ==
  [i \in 1..Len(entries) |->
     [docId |-> entries[i].docId,
      topics |-> entries[i].topics,
      total |-> SumOver(entries[i].topics, DOMAIN entries[i].topics)]]

\* BinSize with Math.ceil for Math.floor
BinSizeCeil(ybs) ==
  LET x == NumberOr(ybs, Num(1))
  IN MathMax(Num(1), IF x.kind = "num" THEN Num(-((-x.n) \div x.d)) ELSE x).n

BinSize(ybs) == MathMax(Num(1), MathFloor(NumberOr(ybs, Num(1)))).n

\* lookup[id]?.[field]
MetaField(lookup, id, field) ==
  IF id \in DOMAIN lookup THEN lookup[id][field] ELSE JsUndefined

IsNullish(v) == v.tag \in {"undefined", "null"}

\* a ?? b
Coalesce(a, b) == IF IsNullish(a) THEN b ELSE a

K_Ukjent == <<85, 107, 106, 101, 110, 116>>    \* 'Ukjent'

\* getYearLabel of the first revision: a document without year is in the
\* bin 'Ukjent' of sort value -1
GetYearLabelUkjent(docId, metaLookup, binSize) ==
  LET yearValue == JsNumber(IF docId \in DOMAIN metaLookup
                              THEN metaLookup[docId]["year"] ELSE JsUndefined)
      hasYear == ~NumberIsNaN(yearValue) /\ NumberIsFinite(yearValue)
      start == IF hasYear
                 THEN MathFloor(JsDiv(yearValue, Num(binSize))).n * binSize
                 ELSE -1
      label == IF ~hasYear THEN K_Ukjent
               ELSE IF binSize > 1
                 THEN NumberToString(start) \o Hyphen
                        \o NumberToString(start + binSize - 1)
                 ELSE NumberToString(start)
  IN [hasYear |-> TRUE, label |-> label, start |-> start]

\* the label and the start of the bin of a document, hasYear FALSE when
\* getYearLabel returns null
GetYearLabel(docId, metaLookup, binSize) ==
  LET yearValue == JsNumber(MetaField(metaLookup, docId, "year"))
      hasYear == ~NumberIsNaN(yearValue) /\ NumberIsFinite(yearValue)
      start == IF hasYear
                 THEN MathFloor(JsDiv(yearValue, Num(binSize))).n * binSize
                 ELSE 0
      label == IF binSize > 1
                 THEN NumberToString(start) \o Hyphen
                        \o NumberToString(start + binSize - 1)
                 ELSE NumberToString(start)
  IN [hasYear |-> hasYear, label |-> label, start |-> start]

\* yearBins.set(label, { sortValue })
YearBinsSet(yearBins, label, sortValue) ==
  IF \E i \in 1..Len(yearBins) : yearBins[i].label = label
    THEN [i \in 1..Len(yearBins) |->
            IF yearBins[i].label = label
              THEN [label |-> label, sortValue |-> sortValue]
              ELSE yearBins[i]]
    ELSE Append(yearBins, [label |-> label, sortValue |-> sortValue])

(***************************************************************************)
(* The pivot: the accumulation loop over rowsWithTotals.                   *)
(***************************************************************************)
\* AddIncrement with "currentRow.total = increment" for "+="
AddIncrementTotalOverwritten(acc, topic, label, increment) ==
  LET currentRow == acc.rowMap[topic]
      newRow == [currentRow EXCEPT
                   !.values = Put(currentRow.values, label,
                                  Get(currentRow.values, label, 0) + increment),
                   !.total = increment]
  IN [acc EXCEPT
        !.rowMap = [acc.rowMap EXCEPT ![topic] = newRow],
        !.yearTotals = Put(acc.yearTotals, label,
                           Get(acc.yearTotals, label, 0) + increment)]

\* AddIncrement with "yearTotals.set(label, increment)"
AddIncrementYearTotalOverwritten(acc, topic, label, increment) ==
  LET currentRow == acc.rowMap[topic]
      newRow == [currentRow EXCEPT
                   !.values = Put(currentRow.values, label,
                                  Get(currentRow.values, label, 0) + increment),
                   !.total = currentRow.total + increment]
  IN [acc EXCEPT
        !.rowMap = [acc.rowMap EXCEPT ![topic] = newRow],
        !.yearTotals = Put(acc.yearTotals, label, increment)]

\* one [topic, value] entry of a document that has the bin label
AddIncrement(acc, topic, label, increment) ==
  LET currentRow == acc.rowMap[topic]
      newRow == [currentRow EXCEPT
                   !.values = Put(currentRow.values, label,
                                  Get(currentRow.values, label, 0) + increment),
                   !.total = currentRow.total + increment]
  IN [acc EXCEPT
        !.rowMap = [acc.rowMap EXCEPT ![topic] = newRow],
        !.yearTotals = Put(acc.yearTotals, label,
                           Get(acc.yearTotals, label, 0) + increment)]

\* Object.entries(row.topics).forEach(...); every count is a number
RECURSIVE AddTopicEntries(_, _, _, _)
AddTopicEntries(acc, label, topics, keys) ==
  IF Len(keys) = 0 THEN acc
  ELSE IF Head(keys) \in DOMAIN acc.rowMap
    THEN AddTopicEntries(AddIncrement(acc, Head(keys), label, topics[Head(keys)]),
                         label, topics, Tail(keys))
    ELSE AddTopicEntries(acc, label, topics, Tail(keys))

\* the place of the first row from i on that has a bin label, 0 if none has
NextLabelled(rows, i, metaLookup, binSize) ==
  LET labelled == {k \in i..Len(rows) :
                     GetYearLabel(rows[k].docId, metaLookup, binSize).hasYear}
  IN IF labelled = {} THEN 0
     ELSE CHOOSE k \in labelled : \A m \in labelled : k <= m

\* the callback of forEach for a row whose bin label is bin.label
AccumulateRow(acc, row, bin) ==
  AddTopicEntries([acc EXCEPT
                     !.yearBins = YearBinsSet(acc.yearBins, bin.label, bin.start)],
                  bin.label, row.topics, ObjectKeys(row.topics))

\* the loop from the row next on, a row with a bin label
RECURSIVE AccumulateFrom(_, _, _, _, _)
AccumulateFrom(rows, next, acc, metaLookup, binSize) ==
  IF next = 0 THEN acc
  ELSE AccumulateFrom(rows, NextLabelled(rows, next + 1, metaLookup, binSize),
         AccumulateRow(acc, rows[next],
                       GetYearLabel(rows[next].docId, metaLookup, binSize)),
         metaLookup, binSize)

\* rowsWithTotals.forEach(...) from the row i on: a row without a bin label
\* is passed over, so the next row that counts is the first with a label
Accumulate(rows, i, acc, metaLookup, binSize) ==
  AccumulateFrom(rows, NextLabelled(rows, i, metaLookup, binSize), acc,
                 metaLookup, binSize)

\* Pivot with a loop that starts at the second document
PivotSkippingFirst(entries, metaLookup, binSize) ==
  Accumulate(RowsWithTotals(entries), 2,
    [rowMap |-> [t \in AllTopicKeys(entries) |->
                   [id |-> t, values |-> EmptyMap, total |-> 0]],
     yearTotals |-> EmptyMap,
     yearBins |-> <<>>],
    metaLookup, binSize)

Pivot(entries, metaLookup, binSize) ==
  Accumulate(RowsWithTotals(entries), 1,
    [rowMap |-> [t \in AllTopicKeys(entries) |->
                   [id |-> t, values |-> EmptyMap, total |-> 0]],
     yearTotals |-> EmptyMap,
     yearBins |-> <<>>],
    metaLookup, binSize)

\* the rows of the pivot acc in the order of the sorted topics
TopicRowsOf(acc, topics) == [i \in 1..Len(topics) |-> acc.rowMap[topics[i]]]

TopicRows(entries, metaLookup, binSize) ==
  TopicRowsOf(Pivot(entries, metaLookup, binSize), SortedTopics(entries))

\* YearLabels without the sort: the bins in the order they were met
YearLabelsInsertionOrder(yearBins) ==
  [i \in 1..Len(yearBins) |-> yearBins[i].label]

YearLabels(yearBins) ==
  LET sorted == ArraySort(yearBins,
                  [p \in Range(yearBins) \X Range(yearBins) |->
                     p[1].sortValue - p[2].sortValue])
  IN [i \in 1..Len(sorted) |-> sorted[i].label]

RECURSIVE ColumnDefs(_, _)
ColumnDefs(yearLabels, percent) ==
  IF Len(yearLabels) = 0 THEN <<>>
  ELSE LET label == Head(yearLabels)
           count == [key |-> label \o SuffixCount, label |-> label,
                     kind |-> "count", hasYear |-> TRUE, year |-> label]
           pct == [key |-> label \o SuffixPercent,
                   label |-> label \o SuffixPercentLabel,
                   kind |-> "percent", hasYear |-> TRUE, year |-> label]
       IN (IF percent THEN <<count, pct>> ELSE <<count>>)
            \o ColumnDefs(Tail(yearLabels), percent)

\* column.year ?? dflt
ColumnYearOr(column, dflt) == IF column.hasYear THEN column.year ELSE dflt

(***************************************************************************)
(* The comparators and the threshold filter.                               *)
(***************************************************************************)
\* direction for a comparator that takes no notice of sortDir
DirectionAlwaysAscending(sDir) == 1

Direction(sDir) == IF sDir = "asc" THEN 1 ELSE -1

\* columnDefs.find((def) => def.key === sKey): the index of the first
\* match, 0 when there is none
FindColumn(columnDefs, sKey) ==
  LET hits == {i \in 1..Len(columnDefs) : columnDefs[i].key = sKey}
  IN IF hits = {} THEN 0 ELSE CHOOSE i \in hits : \A j \in hits : i <= j

\* a sort value that is the share of the column in the total of the row
PercentSortValueOfRowTotal(row, column, yearTotals) ==
  LET value == Get(row.values, ColumnYearOr(column, <<>>), 0)
  IN IF row.total > 0 THEN JsDiv(Num(value), Num(row.total)) ELSE Num(0)

\* the key the comparator sorts a row by under a percent column
PercentSortValue(row, column, yearTotals) ==
  LET denom == Get(yearTotals, ColumnYearOr(column, <<>>), 0)
      value == Get(row.values, ColumnYearOr(column, <<>>), 0)
  IN IF denom > 0 THEN JsDiv(Num(value), Num(denom)) ELSE Num(0)

TopicsCompare(a, b, sKey, sDir, columnDefs, yearTotals) ==
  LET direction == Direction(sDir)
      found == FindColumn(columnDefs, sKey)
  IN IF sKey = K_row THEN direction * LocaleCompare(a.id, b.id)
     ELSE IF sKey = K_total THEN direction * (a.total - b.total)
     ELSE IF found # 0 /\ columnDefs[found].kind = "count"
       THEN direction * (Get(a.values, ColumnYearOr(columnDefs[found], <<>>), 0)
                         - Get(b.values, ColumnYearOr(columnDefs[found], <<>>), 0))
     ELSE IF found # 0 /\ columnDefs[found].kind = "percent"
       THEN direction * SignOfDifference(
                          PercentSortValue(a, columnDefs[found], yearTotals),
                          PercentSortValue(b, columnDefs[found], yearTotals))
     ELSE 0

\* metaLookup[id]?.[field] ?? corpusMetaByUrn[id]?.[field]
MetaWithFallback(metaLookup, metaByUrn, id, field) ==
  Coalesce(MetaField(metaLookup, id, field), MetaField(metaByUrn, id, field))

\* Number(metaLookup[id]?.year ?? corpusMetaByUrn[id]?.year ?? 0)
YearSortValue(metaLookup, metaByUrn, id) ==
  LET v == MetaWithFallback(metaLookup, metaByUrn, id, "year")
  IN IF IsNullish(v) THEN Num(0) ELSE JsNumber(v)

\* metaLookup[id]?.[field] ?? corpusMetaByUrn[id]?.[field] ?? ''
TextSortValue(metaLookup, metaByUrn, id, field) ==
  LET v == MetaWithFallback(metaLookup, metaByUrn, id, field)
  IN IF IsNullish(v) THEN <<>> ELSE v.chars

DocsCompare(a, b, sKey, sDir, topics, metaLookup, metaByUrn) ==
  LET direction == Direction(sDir)
  IN IF sKey = K_dhlabid \/ sKey = K_row
       THEN direction * LocaleCompare(a.id, b.id)
     ELSE IF sKey = K_total THEN direction * (a.total - b.total)
     ELSE IF sKey = K_title \/ sKey = K_authors
       THEN LET field == IF sKey = K_title THEN "title" ELSE "authors"
            IN direction * LocaleCompare(
                             TextSortValue(metaLookup, metaByUrn, a.id, field),
                             TextSortValue(metaLookup, metaByUrn, b.id, field))
     ELSE IF sKey = K_year
       THEN direction * SignOfDifference(
                          YearSortValue(metaLookup, metaByUrn, a.id),
                          YearSortValue(metaLookup, metaByUrn, b.id))
     ELSE IF sKey \in Range(topics)
       THEN direction * (Get(a.values, sKey, 0) - Get(b.values, sKey, 0))
     ELSE 0

\* ThresholdFilter that drops the rows whose total is the threshold
ThresholdFilterStrict(sorted, thr) ==
  IF SignOfDifference(thr, Num(0)) > 0
    THEN ArrayFilter(sorted,
           {r \in Range(sorted) : SignOfDifference(Num(r.total), thr) > 0})
    ELSE sorted

\* totalThreshold > 0 ? sorted.filter((row) => row.total >= totalThreshold)
\*                    : sorted
ThresholdFilter(sorted, thr) ==
  IF SignOfDifference(thr, Num(0)) > 0
    THEN ArrayFilter(sorted,
           {r \in Range(sorted) : SignOfDifference(Num(r.total), thr) >= 0})
    ELSE sorted

(***************************************************************************)
(* evaluationTable, as a function of the values the memo depends on.       *)
(***************************************************************************)
NullTable ==
  [mode |-> "null", rows |-> <<>>, columns |-> <<>>, totalRows |-> 0,
   yearTotals |-> EmptyMap]

\* the table of the pivot acc with its rows and columns
SortedTopicsTable(acc, topicRows, columnDefs, sKey, sDir, thr) ==
  [mode |-> "topics",
   rows |-> ThresholdFilter(
              ArraySort(topicRows,
                [p \in Range(topicRows) \X Range(topicRows) |->
                   TopicsCompare(p[1], p[2], sKey, sDir, columnDefs,
                                 acc.yearTotals)]),
              thr),
   columns |-> columnDefs,
   totalRows |-> Len(topicRows),
   yearTotals |-> acc.yearTotals]

TopicsTableOf(acc, topics, sKey, sDir, thr, percent) ==
  SortedTopicsTable(acc, TopicRowsOf(acc, topics),
                    ColumnDefs(YearLabels(acc.yearBins), percent), sKey, sDir, thr)

TopicsTable(entries, metaLookup, sKey, sDir, thr, ybs, percent) ==
  TopicsTableOf(Pivot(entries, metaLookup, BinSize(ybs)), SortedTopics(entries),
                sKey, sDir, thr, percent)

DocRows(entries) ==
  LET rowsWithTotals == RowsWithTotals(entries)
  IN [i \in 1..Len(rowsWithTotals) |->
        [id |-> rowsWithTotals[i].docId,
         values |-> rowsWithTotals[i].topics,
         total |-> rowsWithTotals[i].total]]

DocsTable(entries, metaLookup, metaByUrn, sKey, sDir, thr) ==
  LET topics == SortedTopics(entries)
      docRows == DocRows(entries)
      sorted == ArraySort(docRows,
                  [p \in Range(docRows) \X Range(docRows) |->
                     DocsCompare(p[1], p[2], sKey, sDir, topics, metaLookup,
                                 metaByUrn)])
  IN [mode |-> "docs",
      rows |-> ThresholdFilter(sorted, thr),
      columns |-> [i \in 1..Len(topics) |->
                     [key |-> topics[i], label |-> topics[i], kind |-> "count",
                      hasYear |-> FALSE, year |-> <<>>]],
      totalRows |-> Len(docRows),
      yearTotals |-> EmptyMap]

EvaluationTable(data, metaLookup, metaByUrn, sKey, sDir, thr, byYear, ybs, percent) ==
  IF ~data.present THEN NullTable
  ELSE IF byYear
    THEN TopicsTable(data.entries, metaLookup, sKey, sDir, thr, ybs, percent)
    ELSE DocsTable(data.entries, metaLookup, metaByUrn, sKey, sDir, thr)

evaluationTable ==
  EvaluationTable(evaluateData, corpusMetaById, corpusMetaByUrn, sortKey,
                  sortDir, totalThreshold, aggregateByYear, yearBinSize,
                  aggregatePercent)

(***************************************************************************)
(* A table cell and a field of the CSV export.                             *)
(***************************************************************************)
\* x.toFixed(1) of a finite x >= 0: the number of tenths nearest to x, the
\* larger one on a tie; the text is tenths \div 10, '.', tenths % 10
ToFixed1(x) == (20 * x.n + x.d) \div (2 * x.d)

\* TableCell without the test of the denominator
TableCellUnguarded(table, row, column) ==
  LET value == IF column.hasYear
                 THEN (IF column.year \in DOMAIN row.values
                         THEN row.values[column.year] ELSE 0)
                 ELSE (IF column.key \in DOMAIN row.values
                         THEN row.values[column.key] ELSE 0)
      denom == IF column.hasYear /\ column.year \in DOMAIN table.yearTotals
                 THEN table.yearTotals[column.year] ELSE 0
      percent == JsMul(JsDiv(Num(value), Num(denom)), Num(100))
  IN IF column.kind = "percent" /\ table.mode = "topics"
       THEN [kind |-> "percent", value |-> percent,
             tenths |-> (20 * percent.n + percent.d) \div (2 * percent.d)]
       ELSE [kind |-> "count", value |-> Num(value), tenths |-> 10 * value]

\* the cell of a row under a column: the number shown, and for a percent
\* column of the pivot the percentage and its text
TableCell(table, row, column) ==
  LET value == Get(row.values, ColumnYearOr(column, column.key), 0)
      denom == Get(table.yearTotals, ColumnYearOr(column, <<>>), 0)
      percent == IF denom > 0
                   THEN JsMul(JsDiv(Num(value), Num(denom)), Num(100))
                   ELSE Num(0)
  IN IF column.kind = "percent" /\ table.mode = "topics"
       THEN [kind |-> "percent", value |-> percent, tenths |-> ToFixed1(percent)]
       ELSE [kind |-> "count", value |-> Num(value), tenths |-> 10 * value]

\* the field handleDownload writes for a row of the pivot under a column
DownloadField(table, row, column) ==
  LET denom == Get(table.yearTotals, ColumnYearOr(column, <<>>), 0)
      raw == Get(row.values, ColumnYearOr(column, <<>>), 0)
      percent == JsMul(JsDiv(Num(raw), Num(denom)), Num(100))
  IN IF column.kind = "percent"
       THEN [kind |-> "percent",
             value |-> IF denom > 0 THEN percent ELSE Num(0),
             tenths |-> IF denom > 0 THEN ToFixed1(percent) ELSE 0]
       ELSE [kind |-> "count",
             value |-> Num(Get(row.values, ColumnYearOr(column, column.key), 0)),
             tenths |-> 10 * Get(row.values, ColumnYearOr(column, column.key), 0)]

(***************************************************************************)
(* The inputs the handlers receive.                                        *)
(***************************************************************************)
InitialPageSize == 500

Doc1 == <<49>>                  \* '1'
Doc2 == <<50>>                  \* '2'
DocIds == {Doc1, Doc2}

TopicN == <<110>>               \* 'n'
TopicNa == <<110, 97>>          \* 'na'
TopicNames == {TopicN, TopicNa}

Year7 == <<55>>                 \* '7'
Year12 == <<49, 50>>            \* '12'
YearSineAnno == <<115, 46, 97, 46>>   \* 's.a.'
YearValues == {JsNull, JsString(YearSineAnno), JsString(Year7), JsString(Year12)}

TopicMaps == UNION {[S -> 0..MaxCount] : S \in SUBSET TopicNames}

\* document ids are array indices: Object.entries lists them in ascending
\* numeric order
RECURSIVE IntegerKeyOrder(_)
IntegerKeyOrder(S) ==
  IF S = {} THEN <<>>
  ELSE LET m == CHOOSE x \in S : \A y \in S : DigitsValue(x) <= DigitsValue(y)
       IN <<m>> \o IntegerKeyOrder(S \ {m})

EntriesOf(obj) ==
  LET ids == IntegerKeyOrder(DOMAIN obj)
  IN [i \in 1..Len(ids) |-> [docId |-> ids[i], topics |-> obj[ids[i]]]]

\* the bodies of the evaluate responses
Responses == {EntriesOf(obj) : obj \in UNION {[D -> TopicMaps] : D \in SUBSET DocIds}}

CorpusMetas == {[title |-> JsUndefined, authors |-> JsUndefined, year |-> y] : y \in YearValues}

\* the metaByDhlabId of parsed build_corpus responses
MetaLookups == UNION {[D -> CorpusMetas] : D \in SUBSET DocIds}

\* event.target.value of the number inputs
ThresholdTexts == {<<48>>, <<50>>}                        \* '0', '2'
BinSizeTexts == {<<>>, <<45, 51>>, <<49, 48>>, <<50, 46, 53>>}   \* '', '-3', '10', '2.5'

(***************************************************************************)
(* The corpus: the parsers of build_corpus responses and of imported       *)
(* files.  A text is the sequence of its lines (text.split(/\r?\n/)), a    *)
(* CSV or Excel sheet the sequence of its rows.                            *)
(***************************************************************************)
MAX_CORPUS == 50000

UrnPrefix == <<85, 82, 78, 58>>                \* 'URN:'

IsSpace(c) == c \in {32, 9, 10, 13}

\* s.trim()
Trim(s) ==
  LET inked == {i \in 1..Len(s) : ~IsSpace(s[i])}
      first == CHOOSE i \in inked : \A j \in inked : i <= j
      last == CHOOSE i \in inked : \A j \in inked : i >= j
  IN IF inked = {} THEN <<>> ELSE SubSeq(s, first, last)

ToUpperCase(s) ==
  [i \in 1..Len(s) |-> IF s[i] >= 97 /\ s[i] <= 122 THEN s[i] - 32 ELSE s[i]]

\* s.toUpperCase().startsWith('URN:')
StartsWithUrn(s) ==
  Len(s) >= Len(UrnPrefix) /\ SubSeq(ToUpperCase(s), 1, Len(UrnPrefix)) = UrnPrefix

\* Array.from(new Set(arr)): the elements in the order of their first
\* occurrence.  Computed half by half: what the first half holds is taken
\* out of the second.
RECURSIVE ArrayFromSet(_)
ArrayFromSet(arr) ==
  IF Len(arr) <= 1 THEN arr
  ELSE LET half == Len(arr) \div 2
           left == ArrayFromSet(SubSeq(arr, 1, half))
           right == ArrayFromSet(SubSeq(arr, half + 1, Len(arr)))
           has == [u \in Range(left) |-> TRUE]
       IN left \o SelectSeq(right, LAMBDA u : u \notin DOMAIN has)

\* UniqueUrns without the Set: every occurrence is kept
UniqueUrnsWithDuplicates(urns) ==
  SubSeq(urns, 1, IF Len(urns) < MAX_CORPUS THEN Len(urns) ELSE MAX_CORPUS)

\* Array.from(new Set(urns)).slice(0, MAX_CORPUS), the last step of each of
\* the three parsers
UniqueUrns(urns) ==
  LET unique == ArrayFromSet(urns)
  IN SubSeq(unique, 1, IF Len(unique) < MAX_CORPUS THEN Len(unique) ELSE MAX_CORPUS)

\* the delimiters of trimmed.split(/[;,|\t]/g)
IsTokenDelimiter(c) == c \in {59, 44, 124, 9}

\* the places where trimmed.split(/[;,|\t]/g) cuts a line, with the two ends
TokenCuts(trimmed) ==
  {0, Len(trimmed) + 1} \cup {i \in 1..Len(trimmed) : IsTokenDelimiter(trimmed[i])}

\* the token that starts after the cut b, trimmed
TokenAfter(trimmed, b) ==
  LET cuts == TokenCuts(trimmed)
      next == CHOOSE x \in cuts : x > b /\ \A y \in cuts : y > b => x <= y
  IN Trim(SubSeq(trimmed, b + 1, next - 1))

\* tokens.find(...) ?? trimmed for a trimmed line: the first token that
\* starts with 'URN:', else the line
UrnOfLine(trimmed) ==
  LET hits == {b \in TokenCuts(trimmed) \ {Len(trimmed) + 1} :
                 StartsWithUrn(TokenAfter(trimmed, b))}
  IN IF hits = {} THEN trimmed
     ELSE TokenAfter(trimmed, CHOOSE b \in hits : \A c \in hits : b <= c)

ParseCorpusText(lines) ==
  LET trimmed == [i \in 1..Len(lines) |-> Trim(lines[i])]
      kept == SelectSeq(trimmed, LAMBDA line : line # <<>>)
  IN UniqueUrns([i \in 1..Len(kept) |-> UrnOfLine(kept[i])])

\* a falsy string field of a row reads as undefined
TrimmedOrUndefined(s) == IF s = <<>> THEN JsUndefined ELSE JsString(Trim(s))

\* the CorpusMeta ParseCorpusRows makes of a row
MetaOfRow(row) ==
  [title |-> TrimmedOrUndefined(row.title),
   authors |-> TrimmedOrUndefined(row.authors),
   year |-> TrimmedOrUndefined(row.year)]

CleanedUrn(row) == Trim(row.urn)
CleanedId(row) == Trim(row.dhlabid)

\* the object that got obj[keyOfRow[i]] = MetaOfRow(rows[i]) for every row
\* with a key, row after row: the last row of a key stays
RowsByKey(rows, keyOfRow) ==
  [k \in Range(keyOfRow) \ {<<>>} |->
     MetaOfRow(rows[CHOOSE i \in 1..Len(rows) :
                      /\ keyOfRow[i] = k
                      /\ \A j \in (i + 1)..Len(rows) : keyOfRow[j] # k])]

\* parseCorpusRows for rows.length > 0; a row is [urn, dhlabid, title,
\* authors, year], each the string the ?? chain of that column gives
ParseCorpusRows(rows) ==
  LET cleanedUrns == [i \in 1..Len(rows) |-> CleanedUrn(rows[i])]
      cleanedIds == [i \in 1..Len(rows) |-> CleanedId(rows[i])]
  IN [urns |-> UniqueUrns(SelectSeq(cleanedUrns, LAMBDA urn : urn # <<>>)),
      metaById |-> RowsByKey(rows, cleanedIds),
      metaByUrn |-> RowsByKey(rows, cleanedUrns)]

\* typeof urn === 'string' && urn.toUpperCase().startsWith('URN:')
IsUrnValue(urn) == urn.tag = "string" /\ StartsWithUrn(urn.chars)

\* dhlabidStr when it is truthy, else the empty string
DhlabidStr(item) == IF item.dhlabid.tag = "string" THEN item.dhlabid.chars ELSE <<>>

\* the CorpusMeta ParseCorpusResponse makes of an item
MetaOfItem(item) ==
  [title |-> IF item.title.tag = "string" THEN item.title ELSE JsUndefined,
   authors |-> IF item.authors.tag = "string" THEN item.authors ELSE JsUndefined,
   year |-> item.year]

\* the body of both loops of ParseCorpusResponse over the items: an item is
\* [dhlabid, urn, title, authors, year], each undefined, null or a string
ParseItems(items) ==
  LET withUrn == SelectSeq(items, LAMBDA item : IsUrnValue(item.urn))
      withId == SelectSeq(items, LAMBDA item : DhlabidStr(item) # <<>>)
      ids == {DhlabidStr(withId[i]) : i \in 1..Len(withId)}
      LastItem(id) == items[CHOOSE i \in 1..Len(items) :
                              /\ DhlabidStr(items[i]) = id
                              /\ \A j \in (i + 1)..Len(items) : DhlabidStr(items[j]) # id]
  IN [urns |-> UniqueUrns([i \in 1..Len(withUrn) |-> withUrn[i].urn.chars]),
      metaByDhlabId |-> [id \in ids |-> MetaOfItem(LastItem(id))]]

\* the indices of a column-oriented response: the keys of the dhlabid
\* column, then the new ones of urn, title, authors and year
ColumnIndices(data) ==
  ArrayFromSet(IntegerKeyOrder(DOMAIN data.dhlabid) \o IntegerKeyOrder(DOMAIN data.urn)
                 \o IntegerKeyOrder(DOMAIN data.title)
                 \o IntegerKeyOrder(DOMAIN data.authors)
                 \o IntegerKeyOrder(DOMAIN data.year))

\* the item the second loop reads at an index
ItemAt(data, index) ==
  [dhlabid |-> Get(data.dhlabid, index, JsUndefined),
   urn |-> Get(data.urn, index, JsUndefined),
   title |-> Get(data.title, index, JsUndefined),
   authors |-> Get(data.authors, index, JsUndefined),
   year |-> Get(data.year, index, JsUndefined)]

\* parseCorpusResponse.  data is [form, items] for an array of records and
\* [form, hasDhlabid, dhlabid, urn, title, authors, year] for an object of
\* columns; a missing column reads as an empty one
ParseCorpusResponse(data) ==
  IF data.form = "array" THEN ParseItems(data.items)
  ELSE IF ~data.hasDhlabid THEN [urns |-> <<>>, metaByDhlabId |-> EmptyMap]
  ELSE LET indices == ColumnIndices(data)
       IN ParseItems([i \in 1..Len(indices) |-> ItemAt(data, indices[i])])

\* the array response that names the documents of a metaByDhlabId, each
\* with the URN of its id
UrnOfId(id) == UrnPrefix \o id

CorpusResponseOf(meta) ==
  LET ids == IntegerKeyOrder(DOMAIN meta)
  IN [form |-> "array",
      items |-> [i \in 1..Len(ids) |->
                   [dhlabid |-> JsString(ids[i]), urn |-> JsString(UrnOfId(ids[i])),
                    title |-> meta[ids[i]].title, authors |-> meta[ids[i]].authors,
                    year |-> meta[ids[i]].year]]]

ParsedCorpusOf(meta) == ParseCorpusResponse(CorpusResponseOf(meta))

(***************************************************************************)
(* The status messages and the two memos.                                  *)
(***************************************************************************)
\* the values of corpusMessage: '', and the message of an import by what
\* it says, 'Importerte n URN-er.', 'Importerte n URN-er (CSV).' with or
\* without 'Ingen dhlabid funnet.', or 'Ingen URN-er funnet ...' for n = 0
NoMessage == [imported |-> FALSE, urns |-> 0, sheet |-> FALSE, dhlabids |-> FALSE]
ImportMessage(n, sheet, hasDhlabIds) ==
  [imported |-> TRUE, urns |-> n, sheet |-> sheet,
   dhlabids |-> n > 0 /\ hasDhlabIds]

\* the values of evaluateStatus ('Evaluering fullført.' without its
\* o-slash)
StatusNone == ""
StatusNoCorpus == "Legg inn eller bygg et korpus forst."
StatusEvaluating == "Evaluerer korpus..."
StatusDone == "Evaluering fullfort."
StatusFailed == "Feil ved evaluering."

\* the values the callback of the evaluationTable memo reads
TableInputs ==
  [evaluateData |-> evaluateData, corpusMetaById |-> corpusMetaById,
   corpusMetaByUrn |-> corpusMetaByUrn, sortKey |-> sortKey, sortDir |-> sortDir,
   totalThreshold |-> totalThreshold, aggregateByYear |-> aggregateByYear,
   yearBinSize |-> yearBinSize, aggregatePercent |-> aggregatePercent]

\* the dependency array of the memo in the second revision of App.tsx
TableDepsSecondRevision(inputs) ==
  <<inputs.evaluateData, inputs.corpusMetaById, inputs.sortKey, inputs.sortDir,
    inputs.totalThreshold, inputs.aggregateByYear, inputs.yearBinSize>>

\* the dependency array of the evaluationTable memo
TableDeps(inputs) ==
  <<inputs.evaluateData, inputs.corpusMetaById, inputs.corpusMetaByUrn,
    inputs.sortKey, inputs.sortDir, inputs.totalThreshold, inputs.aggregateByYear,
    inputs.yearBinSize, inputs.aggregatePercent>>

\* the values the callback of the chartSeries memo reads; the table is a
\* new object whenever its callback ran
ChartInputs ==
  [table |-> tableMemo, aggregatePercent |-> aggregatePercent,
   hiddenSeries |-> hiddenSeries]

\* the dependency array of the chartSeries memo; chartWidth, which places
\* the ticks of the axis only, is left out of the model
ChartDeps(inputs) == <<inputs.table, inputs.aggregatePercent, inputs.hiddenSeries>>

\* the render after a state change: useMemo runs a callback again when a
\* value of its dependency array changed and keeps its value otherwise
Render ==
  /\ tableMemo' = IF TableDeps(TableInputs') = TableDeps(tableMemo)
                    THEN tableMemo ELSE TableInputs'
  /\ chartMemo' = IF ChartDeps(ChartInputs') = ChartDeps(chartMemo)
                    THEN chartMemo ELSE ChartInputs'

(***************************************************************************)
(* Init and the handlers.                                                  *)
(***************************************************************************)
Init ==
  /\ evaluateData = NullData
  /\ evaluateInFlight = 0
  /\ corpusUrns = <<>>
  /\ corpusMessage = NoMessage
  /\ corpusMetaById = EmptyMap
  /\ corpusMetaByUrn = EmptyMap
  /\ sortKey = K_total
  /\ sortDir = "desc"
  /\ totalThreshold = Num(0)
  /\ aggregateByYear = FALSE
  /\ yearBinSize = Num(1)
  /\ aggregatePercent = FALSE
  /\ pageSize = InitialPageSize
  /\ pageIndex = 0
  /\ hiddenSeries = {}
  /\ evaluateStatus = StatusNone
  /\ evaluateLatest = "none"
  /\ tableMemo = TableInputs
  /\ chartMemo = ChartInputs

\* the effects that reset pageIndex and hiddenSeries when one of their
\* dependencies changed
ResetEffects(pageDeps, seriesDeps) ==
  /\ pageIndex' = IF pageDeps THEN 0 ELSE pageIndex
  /\ hiddenSeries' = IF seriesDeps THEN {} ELSE hiddenSeries

\* the request issued last settles (latest), or one issued before it
Settle(latest) ==
  /\ IF latest THEN evaluateLatest = "inFlight"
       ELSE evaluateInFlight > (IF evaluateLatest = "inFlight" THEN 1 ELSE 0)
  /\ evaluateInFlight' = evaluateInFlight - 1
  /\ evaluateLatest' = IF latest THEN "shown"
                       ELSE IF evaluateLatest = "shown" THEN "overwritten"
                       ELSE evaluateLatest

\* handleEvaluate up to the fetch while fewer than limit requests await
\* their answer; the wordbags are filled
HandleEvaluateWithin(limit) ==
  /\ evaluateInFlight < limit
  /\ IF corpusUrns = <<>>
       THEN /\ evaluateStatus' = StatusNoCorpus
            /\ UNCHANGED <<evaluateData, evaluateInFlight, evaluateLatest, pageIndex,
                           hiddenSeries>>
       ELSE /\ evaluateStatus' = StatusEvaluating
            /\ evaluateData' = NullData
            /\ evaluateInFlight' = evaluateInFlight + 1
            /\ evaluateLatest' = "inFlight"
            /\ ResetEffects(evaluateData.present, evaluateData.present)
  /\ UNCHANGED <<corpusMessage, corpusUrns, corpusMetaById, corpusMetaByUrn,
                 sortKey, sortDir, totalThreshold, aggregateByYear,
                 yearBinSize, aggregatePercent, pageSize>>
  /\ Render

HandleEvaluate == HandleEvaluateWithin(MaxInFlight)

\* handleEvaluate after a response that is ok
EvaluateResponse(entries) ==
  /\ evaluateInFlight > 0
  /\ \E latest \in BOOLEAN : Settle(latest)
  /\ evaluateData' = Data(entries)
  /\ evaluateStatus' = StatusDone
  /\ ResetEffects(TRUE, TRUE)
  /\ UNCHANGED <<corpusMessage, corpusUrns, corpusMetaById, corpusMetaByUrn,
                 sortKey, sortDir, totalThreshold, aggregateByYear,
                 yearBinSize, aggregatePercent, pageSize>>
  /\ Render

\* handleEvaluate after a failed request
EvaluateFailure ==
  /\ evaluateInFlight > 0
  /\ \E latest \in BOOLEAN : Settle(latest)
  /\ evaluateStatus' = StatusFailed
  /\ UNCHANGED <<corpusMessage, corpusUrns, evaluateData, corpusMetaById,
                 corpusMetaByUrn, sortKey, sortDir, totalThreshold,
                 aggregateByYear, yearBinSize, aggregatePercent, pageSize,
                 pageIndex, hiddenSeries>>
  /\ Render

\* handleBuildCorpus from the click to a response that is ok, as one step;
\* parsedCorpus is what parseCorpusResponse made of the response
BuildCorpusResponse(parsedCorpus) ==
  /\ corpusMessage' = NoMessage
  /\ corpusMetaById' = parsedCorpus.metaByDhlabId
  /\ corpusUrns' = IF parsedCorpus.urns # <<>> THEN parsedCorpus.urns ELSE corpusUrns
  /\ UNCHANGED <<evaluateStatus, evaluateLatest, evaluateData,
                 evaluateInFlight, corpusMetaByUrn, sortKey, sortDir,
                 totalThreshold, aggregateByYear, yearBinSize,
                 aggregatePercent, pageSize, pageIndex, hiddenSeries>>
  /\ Render

\* handleCorpusFile for a CSV or Excel file with rows, parsed being what
\* parseCorpusRows made of them
CorpusFileRows(parsed) ==
  /\ corpusMessage' = ImportMessage(Len(parsed.urns), TRUE, parsed.metaById # EmptyMap)
  /\ corpusUrns' = parsed.urns
  /\ corpusMetaById' = parsed.metaById
  /\ corpusMetaByUrn' = parsed.metaByUrn
  /\ UNCHANGED <<evaluateStatus, evaluateLatest, evaluateData,
                 evaluateInFlight, sortKey, sortDir, totalThreshold,
                 aggregateByYear, yearBinSize, aggregatePercent, pageSize,
                 pageIndex, hiddenSeries>>
  /\ Render

\* handleCorpusFile for a TXT file and for a CSV file without rows, parsed
\* being what parseCorpusText made of the text
CorpusFileText(parsed) ==
  /\ corpusMessage' = ImportMessage(Len(parsed), FALSE, FALSE)
  /\ corpusUrns' = parsed
  /\ UNCHANGED <<evaluateStatus, evaluateLatest, evaluateData,
                 evaluateInFlight, corpusMetaById, corpusMetaByUrn, sortKey,
                 sortDir, totalThreshold, aggregateByYear, yearBinSize,
                 aggregatePercent, pageSize, pageIndex, hiddenSeries>>
  /\ Render

\* the table controls are rendered while there is a table, and
\* evaluationTable is null exactly when evaluateData is
ControlsShown == evaluateData.present

SetTotalThreshold(text) ==
  /\ ControlsShown
  /\ totalThreshold' = NumberOr(StringToNumber(text), Num(0))
  /\ ResetEffects(totalThreshold' # totalThreshold, FALSE)
  /\ UNCHANGED <<corpusMessage, evaluateStatus, evaluateLatest, corpusUrns,
                 evaluateData, evaluateInFlight, corpusMetaById,
                 corpusMetaByUrn, sortKey, sortDir, aggregateByYear,
                 yearBinSize, aggregatePercent, pageSize>>
  /\ Render

ToggleAggregateByYear ==
  /\ ControlsShown
  /\ aggregateByYear' = ~aggregateByYear
  /\ sortKey' = K_total
  /\ sortDir' = "desc"
  /\ ResetEffects(TRUE, TRUE)
  /\ UNCHANGED <<corpusMessage, evaluateStatus, evaluateLatest, corpusUrns,
                 evaluateData, evaluateInFlight, corpusMetaById,
                 corpusMetaByUrn, totalThreshold, yearBinSize,
                 aggregatePercent, pageSize>>
  /\ Render

SetYearBinSize(text) ==
  /\ ControlsShown
  /\ aggregateByYear
  /\ yearBinSize' = NumberOr(StringToNumber(text), Num(1))
  /\ ResetEffects(yearBinSize' # yearBinSize, yearBinSize' # yearBinSize)
  /\ UNCHANGED <<corpusMessage, evaluateStatus, evaluateLatest, corpusUrns,
                 evaluateData, evaluateInFlight, corpusMetaById,
                 corpusMetaByUrn, sortKey, sortDir, totalThreshold,
                 aggregateByYear, aggregatePercent, pageSize>>
  /\ Render

\* the checkbox reports its new state
SetAggregatePercent ==
  /\ ControlsShown
  /\ aggregateByYear
  /\ aggregatePercent' = ~aggregatePercent
  /\ ResetEffects(TRUE, TRUE)
  /\ UNCHANGED <<corpusMessage, evaluateStatus, evaluateLatest, corpusUrns,
                 evaluateData, evaluateInFlight, corpusMetaById,
                 corpusMetaByUrn, sortKey, sortDir, totalThreshold,
                 aggregateByYear, yearBinSize, pageSize>>
  /\ Render

Next ==
  \/ HandleEvaluate
  \/ \E entries \in Responses : EvaluateResponse(entries)
  \/ EvaluateFailure
  \/ \E meta \in MetaLookups : BuildCorpusResponse(ParsedCorpusOf(meta))
  \/ \E text \in ThresholdTexts : SetTotalThreshold(text)
  \/ ToggleAggregateByYear
  \/ \E text \in BinSizeTexts : SetYearBinSize(text)
  \/ SetAggregatePercent

Spec == Init /\ [][Next]_vars

(***************************************************************************)
(* Vocabulary of the properties, independent of the builder.               *)
(***************************************************************************)
RECURSIVE TotalOf(_)
TotalOf(values) ==
  IF DOMAIN values = {} THEN 0
  ELSE LET k == CHOOSE x \in DOMAIN values : TRUE
       IN values[k] + TotalOf([x \in (DOMAIN values) \ {k} |-> values[x]])

RECURSIVE SumOfTotals(_)
SumOfTotals(rows) ==
  IF Len(rows) = 0 THEN 0 ELSE Head(rows).total + SumOfTotals(Tail(rows))

Entries == evaluateData.entries
DocIndices == 1..Len(Entries)

\* the count a document reports for a word-group, 0 when it reports none
CountOf(i, topic) == Get(Entries[i].topics, topic, 0)

RECURSIVE SumCounts(_, _)
SumCounts(I, topic) ==
  IF I = {} THEN 0
  ELSE LET i == CHOOSE x \in I : TRUE IN CountOf(i, topic) + SumCounts(I \ {i}, topic)

TopicUniverse == {t \in TopicNames : \E i \in DocIndices : t \in DOMAIN Entries[i].topics}

\* the year text of a document in corpusMetaById is a decimal year
HasNumericYear(i) ==
  /\ Entries[i].docId \in DOMAIN corpusMetaById
  /\ corpusMetaById[Entries[i].docId].year.tag = "string"
  /\ IsDigits(corpusMetaById[Entries[i].docId].year.chars)

YearOf(i) == DigitsValue(corpusMetaById[Entries[i].docId].year.chars)

ByDocumentTable ==
  DocsTable(Entries, corpusMetaById, corpusMetaByUrn, sortKey, sortDir, totalThreshold)

PivotTable ==
  TopicsTable(Entries, corpusMetaById, sortKey, sortDir, totalThreshold,
              yearBinSize, aggregatePercent)

(***************************************************************************)
(* C1: in by-document mode and in pivoted mode, the total of every row of  *)
(* the table is the sum of the numbers stored in the values of the row.    *)
(***************************************************************************)
C1_TotalIsSumOfValues ==
  \A i \in 1..Len(evaluationTable.rows) :
    evaluationTable.rows[i].total = TotalOf(evaluationTable.rows[i].values)

\* a pivoted row that collected counts from two year bins
C1_Witness ==
  /\ evaluationTable.mode = "topics"
  /\ \E i \in 1..Len(evaluationTable.rows) :
       /\ Cardinality(DOMAIN evaluationTable.rows[i].values) = 2
       /\ evaluationTable.rows[i].total >= 2
       /\ \A label \in DOMAIN evaluationTable.rows[i].values :
            evaluationTable.rows[i].values[label] > 0

(***************************************************************************)
(* C2: when every document has a decimal year in the metadata and the      *)
(* threshold is 0, the row totals of the by-document table and the row     *)
(* totals of the pivoted table add up to the same number, whatever the     *)
(* bin size.                                                               *)
(***************************************************************************)
C2_PivotConservesTotals ==
  (/\ evaluateData.present
   /\ totalThreshold = Num(0)
   /\ \A i \in DocIndices : HasNumericYear(i))
  => SumOfTotals(ByDocumentTable.rows) = SumOfTotals(PivotTable.rows)

\* two documents with counts in different bins of a bin size above 1
C2_Witness ==
  /\ evaluateData.present
  /\ totalThreshold = Num(0)
  /\ Len(Entries) = 2
  /\ \A i \in DocIndices : HasNumericYear(i) /\ Entries[i].topics # EmptyMap
  /\ BinSize(yearBinSize) > 1
  /\ Len(PivotTable.columns) >= 2
  /\ SumOfTotals(PivotTable.rows) >= 2

(***************************************************************************)
(* C3: the by-document table has one row per document of the evaluation    *)
(* result (totalRows counts them; the threshold filter of C14 is the only  *)
(* thing that removes a row) and one column per word-group of the union of *)
(* the documents' keys, in lexical order and without duplicates; a cell of *)
(* a word-group the document does not report reads 0.                      *)
(***************************************************************************)
C3_DocsRowsAndColumns ==
  evaluationTable.mode = "docs" =>
    LET t == evaluationTable
        rowIds == {t.rows[i].id : i \in 1..Len(t.rows)}
        docKeys == {Entries[i].docId : i \in DocIndices}
    IN /\ t.totalRows = Cardinality(docKeys)
       /\ Cardinality(rowIds) = Len(t.rows)
       /\ rowIds \subseteq docKeys
       /\ totalThreshold = Num(0) => rowIds = docKeys
       /\ {t.columns[j].key : j \in 1..Len(t.columns)} = TopicUniverse
       /\ \A j \in 1..(Len(t.columns) - 1) :
            CodeUnitLess(t.columns[j].key, t.columns[j + 1].key)
       /\ \A i \in 1..Len(t.rows) : \A j \in 1..Len(t.columns) :
            \E d \in DocIndices :
              /\ Entries[d].docId = t.rows[i].id
              /\ TableCell(t, t.rows[i], t.columns[j]).value
                   = Num(CountOf(d, t.columns[j].key))

\* two documents, two word-groups, and a document that reports only one
C3_Witness ==
  /\ evaluationTable.mode = "docs"
  /\ Len(evaluationTable.rows) = 2
  /\ Len(evaluationTable.columns) = 2
  /\ \E i \in DocIndices : Cardinality(DOMAIN Entries[i].topics) = 1
  /\ \E i \in DocIndices : Cardinality(DOMAIN Entries[i].topics) = 2

(***************************************************************************)
(* Year bins as the properties speak of them: a document with the decimal  *)
(* year y is in the bin that starts at floor(y / s) * s.                    *)
(***************************************************************************)
BinStart(y, s) == y - (y % s)

BinLabel(start, s) ==
  IF s > 1 THEN NumberToString(start) \o Hyphen \o NumberToString(start + s - 1)
  ELSE NumberToString(start)

\* the documents with a decimal year in the bin labelled label
DocsInBin(label, s) ==
  {i \in DocIndices : HasNumericYear(i) /\ BinLabel(BinStart(YearOf(i), s), s) = label}

DocsWithYear == {i \in DocIndices : HasNumericYear(i)}

\* the labels of the year columns of a table
YearColumnLabels(t) ==
  {t.columns[j].year : j \in {k \in 1..Len(t.columns) : t.columns[k].kind = "count"}}

Label1990to1999 == <<49, 57, 57, 48, 45, 49, 57, 57, 57>>   \* '1990-1999'
Label1980to1989 == <<49, 57, 56, 48, 45, 49, 57, 56, 57>>   \* '1980-1989'
MetaOfYear(text) ==
  [title |-> JsUndefined, authors |-> JsUndefined, year |-> JsString(text)]

(***************************************************************************)
(* C4: the pivot has one row per word-group of the topic universe, and the *)
(* value of row t under year bin b is the sum of the counts for t of       *)
(* exactly the documents whose year falls in b; the bin of year y with bin *)
(* size s starts at floor(y/s)*s and is labelled start-(start+s-1), or     *)
(* start when s = 1 (s = 10: 1994 -> 1990-1999, 1988 -> 1980-1989).        *)
(***************************************************************************)
C4_PivotValues ==
  evaluationTable.mode = "topics" =>
    LET s == BinSize(yearBinSize)
        topicRows == TopicRows(Entries, corpusMetaById, s)
    IN /\ {topicRows[i].id : i \in 1..Len(topicRows)} = TopicUniverse
       /\ Len(topicRows) = Cardinality(TopicUniverse)
       /\ evaluationTable.totalRows = Cardinality(TopicUniverse)
       /\ \A i \in 1..Len(topicRows) :
            \A label \in YearColumnLabels(evaluationTable) \cup DOMAIN topicRows[i].values :
              Get(topicRows[i].values, label, 0)
                = SumCounts(DocsInBin(label, s), topicRows[i].id)
       /\ GetYearLabel(Doc1, [d \in {Doc1} |-> MetaOfYear(<<49, 57, 57, 52>>)], 10).label
            = Label1990to1999
       /\ GetYearLabel(Doc1, [d \in {Doc1} |-> MetaOfYear(<<49, 57, 56, 56>>)], 10).label
            = Label1980to1989

(***************************************************************************)
(* C5: in the pivot a document whose metadata year is missing or is not    *)
(* numeric adds to no year column, to no row total and to no yearTotals    *)
(* entry and makes no column of its own; the pivot is built all the same.  *)
(***************************************************************************)
C5_YearlessDocumentsDropped ==
  (evaluateData.present /\ aggregateByYear) =>
    LET s == BinSize(yearBinSize)
        t == evaluationTable
        topicRows == TopicRows(Entries, corpusMetaById, s)
    IN /\ t.mode = "topics"
       /\ \A label \in YearColumnLabels(t) : DocsInBin(label, s) # {}
       /\ \A i \in 1..Len(topicRows) :
            /\ topicRows[i].total = SumCounts(DocsWithYear, topicRows[i].id)
            /\ \A label \in DOMAIN topicRows[i].values : DocsInBin(label, s) # {}
       /\ \A label \in DOMAIN t.yearTotals :
            /\ DocsInBin(label, s) # {}
            /\ t.yearTotals[label]
                 = SumOfTotals([k \in 1..Len(topicRows) |->
                      [total |-> SumCounts(DocsInBin(label, s), topicRows[k].id)]])

\* a pivoted state whose evaluation result has a document per given year
\* text that reports a positive count
HasCountingDocWithYear(year) ==
  \E i \in DocIndices :
    /\ MetaField(corpusMetaById, Entries[i].docId, "year") = year
    /\ TotalOf(Entries[i].topics) > 0

\* the start a year column label names: the number before the hyphen
LabelStart(label) ==
  LET hyphens == {k \in 2..Len(label) : label[k] = 45}
      first == CHOOSE k \in hyphens : \A m \in hyphens : k <= m
  IN IF hyphens = {} THEN StringToNumber(label)
     ELSE StringToNumber(SubSeq(label, 1, first - 1))

\* the label is the label of a numeric bin of size s
IsNumericBinLabel(label, s) ==
  /\ LabelStart(label).kind = "num"
  /\ LabelStart(label).d = 1
  /\ label = BinLabel(LabelStart(label).n, s)
  /\ LabelStart(label).n % s = 0

\* the year of the document is absent or is text that is no number
IsYearless(i) ==
  LET year == MetaField(corpusMetaById, Entries[i].docId, "year")
  IN \/ year.tag = "undefined"
     \/ year.tag = "string" /\ Len(year.chars) > 0 /\ ~IsDigits(year.chars)

RECURSIVE SumDocTotals(_)
SumDocTotals(I) ==
  IF I = {} THEN 0
  ELSE LET i == CHOOSE x \in I : TRUE
       IN TotalOf(Entries[i].topics) + SumDocTotals(I \ {i})

C7_YearColumnsAscending ==
  evaluationTable.mode = "topics" =>
    LET cols == evaluationTable.columns
        step == IF aggregatePercent THEN 2 ELSE 1
        counts == {j \in 1..Len(cols) : cols[j].kind = "count"}
    IN /\ Len(cols) % step = 0
       /\ counts = {j \in 1..Len(cols) : j % step = 1 % step}
       /\ \A j \in counts :
            /\ cols[j].key = cols[j].year \o SuffixCount
            /\ aggregatePercent =>
                 /\ cols[j + 1].kind = "percent"
                 /\ cols[j + 1].year = cols[j].year
                 /\ cols[j + 1].key = cols[j].year \o SuffixPercent
       /\ \A j, k \in counts :
            j < k => SignOfDifference(LabelStart(cols[j].year),
                                      LabelStart(cols[k].year)) < 0

\* the first document is of the year 12 and the second of the year 7, bin
\* size 1 and percent columns: the text '12' is before the text '7'
C7_Witness ==
  /\ evaluationTable.mode = "topics"
  /\ aggregatePercent
  /\ BinSize(yearBinSize) = 1
  /\ Len(Entries) = 2
  /\ MetaField(corpusMetaById, Entries[1].docId, "year") = JsString(Year12)
  /\ MetaField(corpusMetaById, Entries[2].docId, "year") = JsString(Year7)
  /\ CodeUnitLess(Year12, Year7)
  /\ Len(evaluationTable.columns) = 4

\* the builder worked with the bin size s: the size it computed is s and
\* every document with a decimal year has the column of its bin of size s
BuilderUsedBinSize(s) ==
  /\ BinSize(yearBinSize) = s
  /\ \A i \in DocIndices :
       HasNumericYear(i) =>
         BinLabel(BinStart(YearOf(i), s), s) \in YearColumnLabels(evaluationTable)

IsPositiveInteger(x) == x.kind = "num" /\ x.d = 1 /\ x.n > 0

(***************************************************************************)
(* C8 as stated: the effective bin size is 1 whenever the supplied         *)
(* yearBinSize is non-positive or is no integer, and is the supplied value *)
(* whenever that is a positive integer.                                    *)
(***************************************************************************)
C8_NonIntegerBinSizeIsOne ==
  evaluationTable.mode = "topics" =>
    BuilderUsedBinSize(IF IsPositiveInteger(yearBinSize) THEN yearBinSize.n ELSE 1)

(***************************************************************************)
(* C8 as amended: the effective bin size is the supplied yearBinSize       *)
(* rounded down to a whole number, and 1 when that is below 1: a positive  *)
(* integer is used as it is, a non-positive value gives 1, and 2.5 gives   *)
(* 2.                                                                      *)
(***************************************************************************)
C8_BinSizeIsFloorAtLeastOne ==
  evaluationTable.mode = "topics" =>
    BuilderUsedBinSize(
      IF yearBinSize.kind = "num" /\ yearBinSize.n \div yearBinSize.d >= 1
        THEN yearBinSize.n \div yearBinSize.d
        ELSE 1)

\* a pivot built with yearBinSize 2.5 over a document of the year 7, whose
\* column is the bin 6-7
C8_Witness ==
  /\ evaluationTable.mode = "topics"
  /\ yearBinSize = Rat(5, 2)
  /\ \E i \in DocIndices : HasNumericYear(i) /\ YearOf(i) = 7
  /\ <<54, 45, 55>> \in YearColumnLabels(evaluationTable)

\* the percentage of value in total, 0 when the total is 0
PercentOf(value, total) == IF total > 0 THEN Rat(100 * value, total) ELSE Num(0)

PercentColumns(t) == {j \in 1..Len(t.columns) : t.columns[j].kind = "percent"}

(***************************************************************************)
(* C9: the value of the percent column of row t and year bin b is          *)
(* 100 * values[t][b] / yearTotals[b] when yearTotals[b] > 0 and 0 when    *)
(* yearTotals[b] is 0 or absent; the table cell, the CSV field and the     *)
(* sort key of the comparator never divide by zero.                        *)
(***************************************************************************)
C9_PercentValue ==
  evaluationTable.mode = "topics" =>
    LET t == evaluationTable
    IN \A i \in 1..Len(t.rows) : \A j \in PercentColumns(t) :
         LET value == Get(t.rows[i].values, t.columns[j].year, 0)
             total == Get(t.yearTotals, t.columns[j].year, 0)
             cell == TableCell(t, t.rows[i], t.columns[j])
             field == DownloadField(t, t.rows[i], t.columns[j])
             key == PercentSortValue(t.rows[i], t.columns[j], t.yearTotals)
         IN /\ cell.kind = "percent"
            /\ cell.value = PercentOf(value, total)
            /\ field.value = PercentOf(value, total)
            /\ field.tenths = cell.tenths
            /\ key.kind = "num"
            /\ JsMul(key, Num(100)) = PercentOf(value, total)

\* percent columns of a bin whose total is absent, of a bin whose total is
\* 0 and of a bin with a positive total, under a row with a positive value
C9_Witness ==
  /\ evaluationTable.mode = "topics"
  /\ aggregatePercent
  /\ Len(evaluationTable.rows) > 0
  /\ \E j \in PercentColumns(evaluationTable) :
       Get(evaluationTable.yearTotals, evaluationTable.columns[j].year, 0) = 0
  /\ \E j \in PercentColumns(evaluationTable) :
       \E i \in 1..Len(evaluationTable.rows) :
         /\ Get(evaluationTable.rows[i].values, evaluationTable.columns[j].year, 0) > 0
         /\ Get(evaluationTable.rows[i].values, evaluationTable.columns[j].year, 0)
              < evaluationTable.yearTotals[evaluationTable.columns[j].year]

RECURSIVE SumColumn(_, _)
SumColumn(rows, label) ==
  IF Len(rows) = 0 THEN 0
  ELSE Get(Head(rows).values, label, 0) + SumColumn(Tail(rows), label)

\* the sum of the percentages of a column, times the total of the column
RECURSIVE SumPercentTimesTotal(_, _, _, _)
SumPercentTimesTotal(t, rows, j, total) ==
  IF Len(rows) = 0 THEN 0
  ELSE LET percent == TableCell(t, Head(rows), t.columns[j]).value
       IN percent.n * (total \div percent.d)
            + SumPercentTimesTotal(t, Tail(rows), j, total)

(***************************************************************************)
(* C10: with totalThreshold = 0 the values of the rows under a year column *)
(* add up to the yearTotals of the bin, so the percentages of a column     *)
(* with a total other than 0 add up to 100.                                *)
(***************************************************************************)
C10_PercentColumnsSumTo100 ==
  (evaluationTable.mode = "topics" /\ totalThreshold = Num(0)) =>
    LET t == evaluationTable
    IN \A j \in 1..Len(t.columns) :
         LET total == Get(t.yearTotals, t.columns[j].year, 0)
         IN /\ SumColumn(t.rows, t.columns[j].year) = total
            /\ (t.columns[j].kind = "percent" /\ total # 0) =>
                 /\ \A i \in 1..Len(t.rows) :
                      total % TableCell(t, t.rows[i], t.columns[j]).value.d = 0
                 /\ SumPercentTimesTotal(t, t.rows, j, total) = 100 * total

\* a percent column whose total comes from two rows and from two documents
C10_Witness ==
  /\ evaluationTable.mode = "topics"
  /\ totalThreshold = Num(0)
  /\ \E j \in PercentColumns(evaluationTable) :
       /\ Get(evaluationTable.yearTotals, evaluationTable.columns[j].year, 0) >= 3
       /\ \A i \in 1..Len(evaluationTable.rows) :
            Get(evaluationTable.rows[i].values, evaluationTable.columns[j].year, 0) > 0
       /\ Len(evaluationTable.rows) = 2

(***************************************************************************)
(* Sorting: handleSort and the header buttons that call it.                *)
(***************************************************************************)
\* the keys of the header buttons of a table: the identity column, the
\* columns, the sum and, by document, title, authors and year
HeaderKeys(table) ==
  {IF table.mode = "topics" THEN K_row ELSE K_dhlabid}
    \cup {table.columns[i].key : i \in 1..Len(table.columns)}
    \cup {K_total}
    \cup (IF table.mode = "docs" THEN {K_title, K_authors, K_year} ELSE {})

\* the direction handleSort gives every new key
DefaultSortDirAlwaysDescending(key) == "desc"

\* the direction handleSort gives a new key
DefaultSortDir(key) ==
  IF key = K_title \/ key = K_authors \/ key = K_dhlabid THEN "asc" ELSE "desc"

HandleSort(key) ==
  /\ ControlsShown
  /\ key \in HeaderKeys(evaluationTable)
  /\ IF sortKey = key
       THEN /\ sortDir' = (IF sortDir = "asc" THEN "desc" ELSE "asc")
            /\ sortKey' = sortKey
       ELSE /\ sortKey' = key
            /\ sortDir' = DefaultSortDir(key)
  /\ ResetEffects(TRUE, FALSE)
  /\ UNCHANGED <<corpusMessage, evaluateStatus, evaluateLatest, corpusUrns,
                 evaluateData, evaluateInFlight, corpusMetaById,
                 corpusMetaByUrn, totalThreshold, aggregateByYear,
                 yearBinSize, aggregatePercent, pageSize>>
  /\ Render

\* the inputs of the sorting: two documents that report both word-groups,
\* metadata with and without title and with numeric and non-numeric years
TitleA == <<97>>                \* 'a'
TitleB == <<66>>                \* 'B'
SortTopicMaps == [TopicNames -> 0..MaxCount]
SortResponses == {EntriesOf(obj) : obj \in [DocIds -> SortTopicMaps]}
SortMetas ==
  {[title |-> JsString(TitleA), authors |-> JsUndefined, year |-> JsString(Year12)],
   [title |-> JsString(TitleB), authors |-> JsUndefined, year |-> JsString(Year7)],
   [title |-> JsUndefined, authors |-> JsUndefined, year |-> JsString(YearSineAnno)]}
SortMetaLookups == UNION {[D -> SortMetas] : D \in SUBSET DocIds}

NextSort ==
  \/ HandleEvaluate
  \/ \E entries \in SortResponses : EvaluateResponse(entries)
  \/ \E meta \in SortMetaLookups : BuildCorpusResponse(ParsedCorpusOf(meta))
  \/ ToggleAggregateByYear
  \/ SetAggregatePercent
  \/ \E key \in HeaderKeys(evaluationTable) : HandleSort(key)

SpecSort == Init /\ [][NextSort]_vars

(***************************************************************************)
(* Vocabulary of the properties of the sorting.                            *)
(***************************************************************************)
Reverse(seq) == [i \in 1..Len(seq) |-> seq[Len(seq) + 1 - i]]

\* the table of the current state, built with the sort direction sDir
TableWithDirection(sDir) ==
  EvaluationTable(evaluateData, corpusMetaById, corpusMetaByUrn, sortKey,
                  sDir, totalThreshold, aggregateByYear, yearBinSize,
                  aggregatePercent)

\* the rows the builder hands to the sort
RowsBeforeSort ==
  IF aggregateByYear
    THEN TopicRows(Entries, corpusMetaById, BinSize(yearBinSize))
    ELSE DocRows(Entries)

\* the result of the comparator of the current mode and sort key, ascending
AscendingCompare(a, b) ==
  IF aggregateByYear
    THEN TopicsCompare(a, b, sortKey, "asc", evaluationTable.columns,
                       evaluationTable.yearTotals)
    ELSE DocsCompare(a, b, sortKey, "asc", SortedTopics(Entries),
                     corpusMetaById, corpusMetaByUrn)

NoTwoRowsTie ==
  \A i, j \in 1..Len(RowsBeforeSort) :
    i # j => AscendingCompare(RowsBeforeSort[i], RowsBeforeSort[j]) # 0

SortKeySupported == sortKey \in HeaderKeys(evaluationTable)

C12_HandleSort ==
  [][\A key \in HeaderKeys(evaluationTable) :
       HandleSort(key) =>
         IF sortKey = key
           THEN sortKey' = sortKey /\ sortDir' # sortDir
           ELSE /\ sortKey' = key
                /\ sortDir' = (IF key \in {K_title, K_authors, K_dhlabid, K_row}
                                 THEN "asc" ELSE "desc")]_vars

\* the year the sort uses for a document, with 0 for a year that is
\* missing or is no number
YearOrZero(id) ==
  LET v == YearSortValue(corpusMetaById, corpusMetaByUrn, id)
  IN IF v.kind = "num" THEN v ELSE Num(0)

\* the rows of the by-document table sorted by YearOrZero
RowsSortedByYearOrZero ==
  ThresholdFilter(
    ArraySort(DocRows(Entries),
      [p \in Range(DocRows(Entries)) \X Range(DocRows(Entries)) |->
         Direction(sortDir) * SignOfDifference(YearOrZero(p[1].id),
                                               YearOrZero(p[2].id))]),
    totalThreshold)

(***************************************************************************)
(* C13: sorted by year, the by-document table orders a document whose year *)
(* is missing or non-numeric exactly as if its year were 0.                *)
(***************************************************************************)
C13_YearSortMissingAsZero ==
  (evaluationTable.mode = "docs" /\ sortKey = K_year) =>
    evaluationTable.rows = RowsSortedByYearOrZero

(***************************************************************************)
(* The threshold filter under every kind of threshold the field can give.  *)
(***************************************************************************)
\* event.target.value of the field 'Min. sum'
FilterThresholdTexts == {<<48>>, <<45, 49>>, <<49>>, <<50>>}   \* '0', '-1', '1', '2'

\* metadata that gives every document one of two years
FilterMetaLookups ==
  {m \in MetaLookups :
     /\ DOMAIN m = DocIds
     /\ \A d \in DocIds : m[d].year \in {JsString(Year7), JsString(Year12)}}

NextFilter ==
  \/ HandleEvaluate
  \/ \E entries \in Responses : EvaluateResponse(entries)
  \/ \E meta \in FilterMetaLookups : BuildCorpusResponse(ParsedCorpusOf(meta))
  \/ \E text \in FilterThresholdTexts : SetTotalThreshold(text)
  \/ ToggleAggregateByYear

SpecFilter == Init /\ [][NextFilter]_vars

\* the rows the builder made whose total the threshold lets pass
RowsThatPass ==
  {r \in Range(RowsBeforeSort) :
     SignOfDifference(totalThreshold, Num(0)) > 0
       => SignOfDifference(Num(r.total), totalThreshold) >= 0}

(***************************************************************************)
(* C14: the table keeps exactly the rows with total >= totalThreshold when *)
(* totalThreshold > 0 and every row, those with total 0 too, when          *)
(* totalThreshold <= 0; totalRows counts the rows before the filter, so    *)
(* the table never has more rows than totalRows.                           *)
(***************************************************************************)
C14_ThresholdFilter ==
  evaluateData.present =>
    /\ Range(evaluationTable.rows) = RowsThatPass
    /\ Len(evaluationTable.rows) = Cardinality(RowsThatPass)
    /\ evaluationTable.totalRows = Len(RowsBeforeSort)
    /\ Len(evaluationTable.rows) <= evaluationTable.totalRows
    /\ SignOfDifference(totalThreshold, Num(0)) <= 0 =>
         Len(evaluationTable.rows) = Cardinality(Range(RowsBeforeSort))

\* a positive threshold that one row meets exactly and another row misses
C14_Witness ==
  /\ evaluateData.present
  /\ SignOfDifference(totalThreshold, Num(0)) > 0
  /\ \E r \in Range(evaluationTable.rows) : Num(r.total) = totalThreshold
  /\ Len(evaluationTable.rows) < evaluationTable.totalRows

(***************************************************************************)
(* Paging of the by-document table: the page size select, the buttons      *)
(* 'Forrige' and 'Neste' and the slice of rows that is rendered.           *)
(***************************************************************************)
\* the values of the options of the page size select; 0 is 'Alle'
PageSizeOptions == {100, 500, 1000, 5000, 10000, 0}

\* Math.ceil(n / d) for integers n >= 0, d > 0
CeilOfQuotient(n, d) == (n + d - 1) \div d

Min(a, b) == IF a < b THEN a ELSE b
Max(a, b) == IF a > b THEN a ELSE b

\* the pager is rendered by document only
PagerShown == ControlsShown /\ evaluationTable.mode = "docs"

SetPageSize(next) ==
  /\ PagerShown
  /\ pageSize' = next
  /\ pageIndex' = 0
  /\ UNCHANGED <<corpusMessage, evaluateStatus, evaluateLatest, corpusUrns,
                 evaluateData, evaluateInFlight, corpusMetaById,
                 corpusMetaByUrn, sortKey, sortDir, totalThreshold,
                 aggregateByYear, yearBinSize, aggregatePercent,
                 hiddenSeries>>
  /\ Render

\* 'Forrige', disabled on the first page
PreviousPage ==
  /\ PagerShown
  /\ pageSize > 0
  /\ pageIndex # 0
  /\ pageIndex' = Max(pageIndex - 1, 0)
  /\ UNCHANGED <<corpusMessage, evaluateStatus, evaluateLatest, corpusUrns,
                 evaluateData, evaluateInFlight, corpusMetaById,
                 corpusMetaByUrn, sortKey, sortDir, totalThreshold,
                 aggregateByYear, yearBinSize, aggregatePercent, pageSize,
                 hiddenSeries>>
  /\ Render

\* NextPage without the test that disables the button on the last page
NextPageNotDisabled ==
  /\ PagerShown
  /\ pageSize > 0
  /\ pageIndex' = Min(pageIndex + 1,
                      CeilOfQuotient(Len(evaluationTable.rows), pageSize) - 1)
  /\ pageIndex' # pageIndex
  /\ UNCHANGED <<corpusMessage, evaluateStatus, evaluateLatest, corpusUrns,
                 evaluateData, evaluateInFlight, corpusMetaById,
                 corpusMetaByUrn, sortKey, sortDir, totalThreshold,
                 aggregateByYear, yearBinSize, aggregatePercent, pageSize,
                 hiddenSeries>>
  /\ Render

\* 'Neste', disabled on the last page
NextPage ==
  /\ PagerShown
  /\ pageSize > 0
  /\ ~(pageIndex >= CeilOfQuotient(Len(evaluationTable.rows), pageSize) - 1)
  /\ pageIndex' = Min(pageIndex + 1,
                      CeilOfQuotient(Len(evaluationTable.rows), pageSize) - 1)
  /\ UNCHANGED <<corpusMessage, evaluateStatus, evaluateLatest, corpusUrns,
                 evaluateData, evaluateInFlight, corpusMetaById,
                 corpusMetaByUrn, sortKey, sortDir, totalThreshold,
                 aggregateByYear, yearBinSize, aggregatePercent, pageSize,
                 hiddenSeries>>
  /\ Render

\* arr.slice(start, end)
ArraySlice(arr, start, end) ==
  LET from == IF start < 0 THEN Max(Len(arr) + start, 0) ELSE Min(start, Len(arr))
      to == IF end < 0 THEN Max(Len(arr) + end, 0) ELSE Min(end, Len(arr))
  IN SubSeq(arr, from + 1, to)

\* PageRows with a slice that ends one row early
PageRowsShort(table, pSize, pIndex) ==
  IF pSize > 0 /\ table.mode = "docs"
    THEN ArraySlice(table.rows, pIndex * pSize, pIndex * pSize + pSize - 1)
    ELSE table.rows

\* the rows of the table body for a page
PageRows(table, pSize, pIndex) ==
  IF pSize > 0 /\ table.mode = "docs"
    THEN ArraySlice(table.rows, pIndex * pSize, pIndex * pSize + pSize)
    ELSE table.rows

\* an evaluate response for n documents with the ids 100, 101, ..., each
\* with one hit less than the document before it
PagerEntries(n) ==
  [i \in 1..n |-> [docId |-> NatToString(99 + i),
                   topics |-> [t \in {TopicN} |-> n - i]]]

PagerResponses == {PagerEntries(n) : n \in {0, 101, MaxPagerDocs}}

PagerThresholdTexts == {<<48>>, <<49>>, <<49, 48, 49>>}     \* '0', '1', '101'

\* a TXT file with the URN of the first document
PagerCorpusText == <<UrnOfId(NatToString(100))>>

NextPager ==
  \/ CorpusFileText(ParseCorpusText(PagerCorpusText))
  \/ HandleEvaluate
  \/ \E entries \in PagerResponses : EvaluateResponse(entries)
  \/ \E text \in PagerThresholdTexts : SetTotalThreshold(text)
  \/ ToggleAggregateByYear
  \/ \E key \in HeaderKeys(evaluationTable) : HandleSort(key)
  \/ \E next \in PageSizeOptions : SetPageSize(next)
  \/ PreviousPage
  \/ NextPage

SpecPager == Init /\ [][NextPager]_vars

(***************************************************************************)
(* Vocabulary of the properties of the paging.                             *)
(***************************************************************************)
PageCount == CeilOfQuotient(Len(evaluationTable.rows), pageSize)

\* the pages 0 .. k - 1 one after the other
RECURSIVE PagesUpTo(_)
PagesUpTo(k) ==
  IF k = 0 THEN <<>>
  ELSE PagesUpTo(k - 1) \o PageRows(evaluationTable, pageSize, k - 1)

(***************************************************************************)
(* C15: by document with a page size P > 0, the pages of the indices       *)
(* 0 .. ceil(n/P) - 1 one after the other are the filtered and sorted rows *)
(* of the table: every row is on exactly one page, in the same order.      *)
(***************************************************************************)
C15_PagesReproduceRows ==
  (PagerShown /\ pageSize > 0) =>
    /\ PagesUpTo(PageCount) = evaluationTable.rows
    /\ \A k \in 0..(PageCount - 1) :
         /\ Len(PageRows(evaluationTable, pageSize, k)) > 0
         /\ Len(PageRows(evaluationTable, pageSize, k)) <= pageSize

\* three pages, the last of which is not full
C15_Witness ==
  /\ PagerShown
  /\ pageSize > 0
  /\ PageCount = 3
  /\ Len(evaluationTable.rows) % pageSize # 0
  /\ pageIndex = 1

(***************************************************************************)
(* C16 as stated: by document with pageSize > 0, pageIndex is always       *)
(* within 0 .. ceil(rowCount / pageSize) - 1, rowCount being the number of *)
(* rows the filter left.                                                   *)
(***************************************************************************)
C16_PageIndexWithinPages ==
  (PagerShown /\ pageSize > 0) =>
    (0 <= pageIndex /\ pageIndex <= PageCount - 1)

(***************************************************************************)
(* C16 as amended: by document with pageSize > 0, pageIndex is always      *)
(* within 0 .. max(0, ceil(rowCount / pageSize) - 1); it is 0 when the     *)
(* filter left no rows.                                                    *)
(***************************************************************************)
C16_PageIndexWithinPagesOrZero ==
  (PagerShown /\ pageSize > 0) =>
    (0 <= pageIndex /\ pageIndex <= Max(0, PageCount - 1))

\* the last of three pages
C16_Witness ==
  /\ PagerShown
  /\ pageSize > 0
  /\ PageCount = 3
  /\ pageIndex = 2

(***************************************************************************)
(* The chart under the pivot: chartSeries (its years and series; the scale *)
(* and the ticks of the drawing are left out) and the legend buttons.      *)
(***************************************************************************)
\* the count columns that name a year
YearColumns(table) ==
  SelectSeq(table.columns,
            LAMBDA column : column.kind = "count" /\ column.hasYear
                              /\ column.year # <<>>)

\* the value of a series under a year column
SeriesValue(table, row, column, percent) ==
  LET raw == Get(row.values, ColumnYearOr(column, <<>>), 0)
      denom == Get(table.yearTotals, ColumnYearOr(column, <<>>), 0)
  IN IF percent
       THEN (IF denom > 0 THEN JsMul(JsDiv(Num(raw), Num(denom)), Num(100))
             ELSE Num(0))
       ELSE Num(raw)

\* the rows of the series, given the rows sorted by total and the hidden ids
TopRows(sortedRows, hidden) ==
  ArraySlice(ArrayFilter(sortedRows, {r \in Range(sortedRows) : r.id \notin hidden}),
             0, 5)

\* ChartSeries that takes the five largest rows first and hides afterwards
ChartSeriesHiddenAfterTop(table, percent, hidden) ==
  LET yearColumns == YearColumns(table)
      sortedRows == ArraySort(table.rows,
                      [p \in Range(table.rows) \X Range(table.rows) |->
                         p[2].total - p[1].total])
      topFive == ArraySlice(sortedRows, 0, 5)
      topRows == ArrayFilter(topFive, {r \in Range(topFive) : r.id \notin hidden})
  IN IF table.mode # "topics" \/ Len(yearColumns) = 0
       THEN [shown |-> FALSE, years |-> <<>>, series |-> <<>>]
       ELSE [shown |-> TRUE,
             years |-> [i \in 1..Len(yearColumns) |-> yearColumns[i].year],
             series |-> [i \in 1..Len(topRows) |->
                           [id |-> topRows[i].id,
                            values |-> [j \in 1..Len(yearColumns) |->
                                          SeriesValue(table, topRows[i],
                                                      yearColumns[j], percent)]]]]

\* ChartSeries whose percentages are shares of the total of the row
ChartSeriesShareOfRow(table, percent, hidden) ==
  LET yearColumns == YearColumns(table)
      sortedRows == ArraySort(table.rows,
                      [p \in Range(table.rows) \X Range(table.rows) |->
                         p[2].total - p[1].total])
      topRows == TopRows(sortedRows, hidden)
  IN IF table.mode # "topics" \/ Len(yearColumns) = 0
       THEN [shown |-> FALSE, years |-> <<>>, series |-> <<>>]
       ELSE [shown |-> TRUE,
             years |-> [i \in 1..Len(yearColumns) |-> yearColumns[i].year],
             series |-> [i \in 1..Len(topRows) |->
                           [id |-> topRows[i].id,
                            values |-> [j \in 1..Len(yearColumns) |->
                               IF percent /\ topRows[i].total > 0
                                 THEN Rat(100 * Get(topRows[i].values,
                                                    yearColumns[j].year, 0),
                                          topRows[i].total)
                                 ELSE Num(Get(topRows[i].values,
                                              yearColumns[j].year, 0))]]]]

\* chartSeries: shown FALSE stands for null
ChartSeries(table, percent, hidden) ==
  LET yearColumns == YearColumns(table)
      sortedRows == ArraySort(table.rows,
                      [p \in Range(table.rows) \X Range(table.rows) |->
                         p[2].total - p[1].total])
      topRows == TopRows(sortedRows, hidden)
  IN IF table.mode # "topics" \/ Len(yearColumns) = 0
       THEN [shown |-> FALSE, years |-> <<>>, series |-> <<>>]
       ELSE [shown |-> TRUE,
             years |-> [i \in 1..Len(yearColumns) |-> yearColumns[i].year],
             series |-> [i \in 1..Len(topRows) |->
                           [id |-> topRows[i].id,
                            values |-> [j \in 1..Len(yearColumns) |->
                                          SeriesValue(table, topRows[i],
                                                      yearColumns[j], percent)]]]]

chartSeries == ChartSeries(evaluationTable, aggregatePercent, hiddenSeries)

\* a click on the legend button of a series
ToggleHiddenSeries(id) ==
  /\ ControlsShown
  /\ chartSeries.shown
  /\ \E i \in 1..Len(chartSeries.series) : chartSeries.series[i].id = id
  /\ hiddenSeries' = IF id \in hiddenSeries THEN hiddenSeries \ {id}
                     ELSE hiddenSeries \cup {id}
  /\ UNCHANGED <<corpusMessage, evaluateStatus, evaluateLatest, corpusUrns,
                 evaluateData, evaluateInFlight, corpusMetaById,
                 corpusMetaByUrn, sortKey, sortDir, totalThreshold,
                 aggregateByYear, yearBinSize, aggregatePercent, pageSize,
                 pageIndex>>
  /\ Render

\* the inputs of the chart: six word-groups, so that one more than five
\* rows can be charted, with totals that differ, that tie and that are 0
ChartTopics == <<<<97>>, <<98>>, <<99>>, <<100>>, <<101>>, <<102>>>>   \* 'a' .. 'f'

ChartTopicMap(counts) == [t \in Range(ChartTopics) |->
                            counts[CHOOSE i \in 1..Len(ChartTopics) : ChartTopics[i] = t]]

ChartResponses ==
  {EntriesOf([d \in {Doc1} |-> ChartTopicMap(<<6, 5, 4, 3, 2, 1>>)]),
   EntriesOf([d \in DocIds |-> ChartTopicMap(<<1, 1, 1, 1, 1, 1>>)]),
   EntriesOf([d \in DocIds |-> IF d = Doc1 THEN ChartTopicMap(<<1, 2, 3, 0, 2, 1>>)
                                           ELSE ChartTopicMap(<<2, 0, 1, 0, 2, 5>>)])}

ChartMetaLookups ==
  {[d \in DocIds |-> [title |-> JsUndefined, authors |-> JsUndefined,
                      year |-> IF d = Doc1 THEN JsString(Year7) ELSE JsString(Year12)]]}

ChartThresholdTexts == {<<48>>, <<50>>}     \* '0', '2'

NextChart ==
  \/ HandleEvaluate
  \/ \E entries \in ChartResponses : EvaluateResponse(entries)
  \/ \E meta \in ChartMetaLookups : BuildCorpusResponse(ParsedCorpusOf(meta))
  \/ \E text \in ChartThresholdTexts : SetTotalThreshold(text)
  \/ ToggleAggregateByYear
  \/ SetAggregatePercent
  \/ \E id \in Range(ChartTopics) : ToggleHiddenSeries(id)

SpecChart == Init /\ [][NextChart]_vars

(***************************************************************************)
(* Vocabulary of the properties of the chart.                              *)
(***************************************************************************)
SeriesIds == {chartSeries.series[i].id : i \in 1..Len(chartSeries.series)}

\* the rows of the table that are not hidden
VisibleRows == {r \in Range(evaluationTable.rows) : r.id \notin hiddenSeries}

RowOfSeries(i) ==
  CHOOSE r \in Range(evaluationTable.rows) : r.id = chartSeries.series[i].id

(***************************************************************************)
(* C17: the series of the chart are the first five rows (fewer when there  *)
(* are fewer) of the filtered rows of the pivot in descending order of     *)
(* their totals, the hidden word-groups taken out before: no series is     *)
(* hidden, there are at most five, and no visible row with a larger total  *)
(* than a charted row is left out.                                         *)
(***************************************************************************)
C17_ChartTopFive ==
  chartSeries.shown =>
    /\ Len(chartSeries.series) = Min(5, Cardinality(VisibleRows))
    /\ Cardinality(SeriesIds) = Len(chartSeries.series)
    /\ SeriesIds \subseteq {r.id : r \in VisibleRows}
    /\ SeriesIds \cap hiddenSeries = {}
    /\ \A i, j \in 1..Len(chartSeries.series) :
         i < j => RowOfSeries(i).total >= RowOfSeries(j).total
    /\ \A r \in VisibleRows :
         r.id \notin SeriesIds =>
           \A i \in 1..Len(chartSeries.series) : r.total <= RowOfSeries(i).total

\* six rows with different totals, the largest of them hidden
C17_Witness ==
  /\ chartSeries.shown
  /\ Len(evaluationTable.rows) = 6
  /\ Len(chartSeries.series) = 5
  /\ \E r \in Range(evaluationTable.rows) :
       /\ r.id \in hiddenSeries
       /\ \A q \in Range(evaluationTable.rows) : q.id # r.id => q.total < r.total

\* the column of the table with the given kind for the year of the index j
\* of the chart
TableColumnOfYear(j, kind) ==
  LET columns == evaluationTable.columns
  IN columns[CHOOSE k \in 1..Len(columns) :
               columns[k].kind = kind /\ columns[k].year = chartSeries.years[j]]

(***************************************************************************)
(* C18: for every charted word-group and every year column the value of    *)
(* the series is the value the table shows for that row and year: the      *)
(* count when the percent toggle is off, the value of the percent column   *)
(* when it is on.                                                          *)
(***************************************************************************)
C18_ChartMatchesTable ==
  chartSeries.shown =>
    /\ Len(chartSeries.years) = Cardinality(YearColumnLabels(evaluationTable))
    /\ \A i \in 1..Len(chartSeries.series) :
         /\ Len(chartSeries.series[i].values) = Len(chartSeries.years)
         /\ \A j \in 1..Len(chartSeries.years) :
              chartSeries.series[i].values[j]
                = TableCell(evaluationTable, RowOfSeries(i),
                            TableColumnOfYear(j, IF aggregatePercent
                                                   THEN "percent" ELSE "count")).value

\* percentages in the chart, one of them neither 0 nor 100
C18_Witness ==
  /\ chartSeries.shown
  /\ aggregatePercent
  /\ Len(chartSeries.years) = 2
  /\ \E i \in 1..Len(chartSeries.series) :
       \E j \in 1..Len(chartSeries.years) :
         /\ chartSeries.series[i].values[j] # Num(0)
         /\ chartSeries.series[i].values[j] # Num(100)
         /\ chartSeries.series[i].values[j] # Num(RowOfSeries(i).total)

(***************************************************************************)
(* The corpus under builds and imports.                                    *)
(***************************************************************************)
Urn1 == UrnOfId(Doc1)                         \* 'URN:1'
Urn2 == UrnOfId(Doc2)                         \* 'URN:2'
LowerUrn2 == <<117, 114, 110, 58, 50>>        \* 'urn:2'
NoUrn == <<113>>                              \* 'q'

\* the lines of small text files: blank lines, spaces around a URN, a URN
\* among the tokens of a line, a URN twice, a line without a URN
CorpusTextLines ==
  {<<>>, <<32>> \o Urn1 \o <<32>>, Urn1, <<120, 59, 32>> \o LowerUrn2 \o <<44, 121>>,
   Urn2, NoUrn}

SmallCorpusTexts == UNION {[1..n -> CorpusTextLines] : n \in 0..2}

ParsedCorpusTexts == {ParseCorpusText(text) : text \in SmallCorpusTexts}

\* the rows of CSV files and Excel sheets
CorpusRows ==
  {[urn |-> <<32>> \o Urn1, dhlabid |-> Doc1, title |-> TitleA, authors |-> <<>>,
    year |-> Year12],
   [urn |-> Urn2, dhlabid |-> Doc2 \o <<32>>, title |-> <<>>, authors |-> <<>>,
    year |-> Year7],
   [urn |-> Urn1, dhlabid |-> <<>>, title |-> TitleB, authors |-> <<>>, year |-> <<>>],
   [urn |-> <<>>, dhlabid |-> Doc2, title |-> <<>>, authors |-> <<>>,
    year |-> YearSineAnno]}

ParsedCorpusRows == {ParseCorpusRows(rows) : rows \in UNION {[1..n -> CorpusRows] : n \in 1..2}}

\* the records of build_corpus responses
CorpusItems ==
  {[dhlabid |-> JsString(Doc1), urn |-> JsString(Urn1), title |-> JsString(TitleA),
    authors |-> JsUndefined, year |-> JsString(Year12)],
   [dhlabid |-> JsString(Doc2), urn |-> JsString(LowerUrn2), title |-> JsNull,
    authors |-> JsUndefined, year |-> JsNull],
   [dhlabid |-> JsUndefined, urn |-> JsString(Urn1), title |-> JsUndefined,
    authors |-> JsUndefined, year |-> JsUndefined],
   [dhlabid |-> JsString(Doc1), urn |-> JsString(NoUrn), title |-> JsUndefined,
    authors |-> JsUndefined, year |-> JsString(Year7)]}

ArrayResponses ==
  {[form |-> "array", items |-> items] : items \in UNION {[1..n -> CorpusItems] : n \in 0..2}}

Index0 == <<48>>                 \* '0'
Index1 == <<49>>                 \* '1'
Index2 == <<50>>                 \* '2'

\* column-oriented responses: one whose urn column has an index the dhlabid
\* column lacks, one without a dhlabid column
ColumnResponses ==
  {[form |-> "columns", hasDhlabid |-> TRUE,
    dhlabid |-> [k \in {Index0, Index1} |-> IF k = Index0 THEN JsString(Doc1) ELSE JsString(Doc2)],
    urn |-> [k \in {Index0, Index1, Index2} |-> IF k = Index1 THEN JsString(Urn2) ELSE JsString(Urn1)],
    title |-> EmptyMap, authors |-> EmptyMap,
    year |-> [k \in {Index1} |-> JsString(Year7)]],
   [form |-> "columns", hasDhlabid |-> FALSE, dhlabid |-> EmptyMap,
    urn |-> [k \in {Index0} |-> JsString(Urn1)],
    title |-> EmptyMap, authors |-> EmptyMap, year |-> EmptyMap]}

\* an array response with two records more than MAX_CORPUS, without ids:
\* 'URN:2' twice, then 'URN:3', 'URN:4', ...
BigCorpusResponse ==
  [form |-> "array",
   items |-> [i \in 1..(MAX_CORPUS + 2) |->
                [dhlabid |-> JsUndefined,
                 urn |-> JsString(UrnOfId(NatToString(IF i = 1 THEN 2 ELSE i))),
                 title |-> JsUndefined, authors |-> JsUndefined, year |-> JsUndefined]]]

ParsedCorpusResponses ==
  {ParseCorpusResponse(data) : data \in ArrayResponses \cup ColumnResponses \cup {BigCorpusResponse}}

NextCorpus ==
  \/ \E parsedCorpus \in ParsedCorpusResponses : BuildCorpusResponse(parsedCorpus)
  \/ \E parsed \in ParsedCorpusRows : CorpusFileRows(parsed)
  \/ \E parsed \in ParsedCorpusTexts : CorpusFileText(parsed)

SpecCorpus == Init /\ [][NextCorpus]_vars

\* C20: after any sequence of corpus builds and file imports, corpusUrns
\* holds no URN twice and at most MAX_CORPUS entries.
C20_CorpusUrnsUniqueAndCapped ==
  /\ Cardinality(Range(corpusUrns)) = Len(corpusUrns)
  /\ Len(corpusUrns) <= MAX_CORPUS

\* a build with a URN twice and more than MAX_CORPUS different URNs was cut
\* to MAX_CORPUS entries, the repeated URN kept once
C20_Witness ==
  /\ Len(corpusUrns) = MAX_CORPUS
  /\ corpusUrns[1] = Urn2
  /\ corpusUrns[2] = UrnOfId(NatToString(3))
  /\ corpusUrns[MAX_CORPUS] = UrnOfId(NatToString(MAX_CORPUS + 1))

(***************************************************************************)
(* Stability of the sort: four documents, so that the binary insertion     *)
(* places a row without comparing it with every row before it.             *)
(***************************************************************************)
Doc3 == <<51>>                  \* '3'
Doc4 == <<52>>                  \* '4'
StableDocIds == {Doc1, Doc2, Doc3, Doc4}

\* every document reports 'n' once, some report 'na' once as well
StableTopicMaps == {[t \in {TopicN} |-> 1], [t \in TopicNames |-> 1]}
StableResponses == {EntriesOf(obj) : obj \in [StableDocIds -> StableTopicMaps]}

\* the first two documents have a numeric year, the other two a numeric
\* year or the text 's.a.'
StableMetaLookups ==
  {[d \in StableDocIds |->
      [title |-> JsUndefined, authors |-> JsUndefined, year |-> JsString(y[d])]] :
     y \in {f \in [StableDocIds -> {Year7, Year12, YearSineAnno}] :
              f[Doc1] # YearSineAnno /\ f[Doc2] # YearSineAnno}}

NextStable ==
  \/ HandleEvaluate
  \/ \E entries \in StableResponses : EvaluateResponse(entries)
  \/ \E meta \in StableMetaLookups : BuildCorpusResponse(ParsedCorpusOf(meta))
  \/ \E text \in ThresholdTexts : SetTotalThreshold(text)
  \/ ToggleAggregateByYear
  \/ \E key \in HeaderKeys(evaluationTable) : HandleSort(key)

SpecStable == Init /\ [][NextStable]_vars

\* the place of a row among the rows the builder hands to the sort
InputPosition(row) == CHOOSE i \in 1..Len(RowsBeforeSort) : RowsBeforeSort[i] = row

\* the comparator of the current mode has a branch for the sort key
SortKeyRecognised ==
  IF aggregateByYear
    THEN sortKey \in {K_row, K_total}
           \cup {evaluationTable.columns[i].key : i \in 1..Len(evaluationTable.columns)}
    ELSE sortKey \in {K_dhlabid, K_row, K_total, K_title, K_authors, K_year}
           \cup Range(SortedTopics(Entries))

(***************************************************************************)
(* C21: rows that compare equal under the current sort key keep their      *)
(* relative input order (document order of the evaluation result by        *)
(* document, lexical word-group order in the pivot); a sort key the        *)
(* comparator does not recognise leaves the row order unchanged.           *)
(***************************************************************************)
C21_TiesKeepInputOrder ==
  evaluateData.present =>
    /\ \A i, j \in 1..Len(evaluationTable.rows) :
         (/\ i < j
          /\ AscendingCompare(evaluationTable.rows[i], evaluationTable.rows[j]) = 0)
           => InputPosition(evaluationTable.rows[i]) < InputPosition(evaluationTable.rows[j])
    /\ ~SortKeyRecognised =>
         evaluationTable.rows = ThresholdFilter(RowsBeforeSort, totalThreshold)

\* the comparator of the current mode, sort key and direction
CurrentCompare(a, b) ==
  IF aggregateByYear
    THEN TopicsCompare(a, b, sortKey, sortDir, evaluationTable.columns,
                       evaluationTable.yearTotals)
    ELSE DocsCompare(a, b, sortKey, sortDir, SortedTopics(Entries),
                     corpusMetaById, corpusMetaByUrn)

\* rows sorted by the comparator of the current state
SortedByCurrent(rows) ==
  ArraySort(rows, [p \in Range(rows) \X Range(rows) |-> CurrentCompare(p[1], p[2])])

\* the rows the filter keeps of the rows it is given, in their order
IsSubsequenceOf(part, whole) == ArrayFilter(whole, Range(part)) = part

(***************************************************************************)
(* C22: the filtered rows are an order-preserving subsequence of the fully *)
(* sorted rows, and they are the rows one gets by filtering first and      *)
(* sorting afterwards, for every sort key and direction.                   *)
(***************************************************************************)
C22_FilterCommutesWithSort ==
  evaluateData.present =>
    /\ IsSubsequenceOf(evaluationTable.rows, SortedByCurrent(RowsBeforeSort))
    /\ evaluationTable.rows
         = SortedByCurrent(ThresholdFilter(RowsBeforeSort, totalThreshold))

(***************************************************************************)
(* The memoised table and chart series against the ones derived anew.      *)
(***************************************************************************)
\* the table the evaluationTable callback makes of the values it read
TableOfInputs(inputs) ==
  EvaluationTable(inputs.evaluateData, inputs.corpusMetaById, inputs.corpusMetaByUrn,
                  inputs.sortKey, inputs.sortDir, inputs.totalThreshold,
                  inputs.aggregateByYear, inputs.yearBinSize, inputs.aggregatePercent)

\* the values of the two memos in use
MemoisedTable == TableOfInputs(tableMemo)
MemoisedSeries ==
  ChartSeries(TableOfInputs(chartMemo.table), chartMemo.aggregatePercent,
              chartMemo.hiddenSeries)

MemoResponses ==
  {EntriesOf([d \in {Doc1} |-> [t \in {TopicN} |-> 1]]),
   EntriesOf([d \in DocIds |-> [t \in TopicNames |-> IF d = Doc1 THEN 1 ELSE 2]])}

MemoParsedRows == {ParseCorpusRows(<<row>>) : row \in CorpusRows}

MemoBinSizeTexts == {<<49>>, <<49, 48>>}     \* '1', '10'

NextMemo ==
  \/ HandleEvaluate
  \/ \E entries \in MemoResponses : EvaluateResponse(entries)
  \/ EvaluateFailure
  \/ \E meta \in ChartMetaLookups : BuildCorpusResponse(ParsedCorpusOf(meta))
  \/ \E parsed \in MemoParsedRows : CorpusFileRows(parsed)
  \/ \E text \in ThresholdTexts : SetTotalThreshold(text)
  \/ ToggleAggregateByYear
  \/ \E text \in MemoBinSizeTexts : SetYearBinSize(text)
  \/ SetAggregatePercent
  \/ \E key \in HeaderKeys(evaluationTable) : HandleSort(key)
  \/ \E id \in TopicNames : ToggleHiddenSeries(id)

SpecMemo == Init /\ [][NextMemo]_vars

(***************************************************************************)
(* C23: after any sequence of state changes (evaluation result, metadata   *)
(* of a build or import, sort key and direction, threshold, pivot toggle,  *)
(* bin size, percent toggle, hidden series) the table and the chart series *)
(* in use are the ones derived from the current state values.              *)
(***************************************************************************)
C23_MemoIsFresh ==
  /\ MemoisedTable = evaluationTable
  /\ MemoisedSeries = chartSeries

\* a pivot in percent from imported metadata, sorted by a year column, with
\* a threshold and a hidden series
C23_Witness ==
  /\ evaluateData.present
  /\ corpusMetaByUrn # EmptyMap
  /\ aggregateByYear /\ aggregatePercent
  /\ sortKey \notin {K_total, K_row}
  /\ BinSize(yearBinSize) = 10
  /\ totalThreshold = Num(2)
  /\ hiddenSeries # {}
  /\ chartSeries.shown
  /\ MemoisedSeries.shown

(***************************************************************************)
(* Evaluate requests that overlap: the button stays enabled while a        *)
(* request is in flight, and the answers arrive in any order.              *)
(***************************************************************************)
NextRace ==
  \/ \E meta \in ChartMetaLookups : BuildCorpusResponse(ParsedCorpusOf(meta))
  \/ HandleEvaluateWithin(MaxOverlapping)
  \/ \E entries \in MemoResponses : EvaluateResponse(entries)
  \/ EvaluateFailure
  \/ \E text \in ThresholdTexts : SetTotalThreshold(text)
  \/ ToggleAggregateByYear
  \/ \E key \in HeaderKeys(evaluationTable) : HandleSort(key)

SpecRace == Init /\ [][NextRace]_vars

(***************************************************************************)
(* C25: once every evaluate request has settled, evaluateData and the      *)
(* status message are those of the request issued last: the answer or      *)
(* failure of an earlier request never replaces them.                      *)
(***************************************************************************)
C25_LatestRequestWins ==
  evaluateInFlight = 0 => evaluateLatest \in {"none", "shown"}

(***************************************************************************)
(* C26: after every build and import, corpusUrns, corpusMetaById and       *)
(* corpusMetaByUrn describe the corpus that build or import produced: the  *)
(* build its URNs (when it has any) and its metaByDhlabId, and no by-URN   *)
(* metadata; a CSV or Excel file its three parts; a text file with URNs    *)
(* its URNs and no metadata.  No metadata entry of an earlier corpus       *)
(* stays.                                                                  *)
(***************************************************************************)
C26_CorpusStateOfOneCorpus ==
  [][/\ \A parsedCorpus \in ParsedCorpusResponses :
          BuildCorpusResponse(parsedCorpus) =>
            /\ parsedCorpus.urns # <<>> => corpusUrns' = parsedCorpus.urns
            /\ corpusMetaById' = parsedCorpus.metaByDhlabId
            /\ corpusMetaByUrn' = EmptyMap
     /\ \A parsed \in ParsedCorpusRows :
          CorpusFileRows(parsed) =>
            /\ corpusUrns' = parsed.urns
            /\ corpusMetaById' = parsed.metaById
            /\ corpusMetaByUrn' = parsed.metaByUrn
     /\ \A parsed \in ParsedCorpusTexts \ {<<>>} :
          CorpusFileText(parsed) =>
            /\ corpusUrns' = parsed
            /\ corpusMetaById' = EmptyMap
            /\ corpusMetaByUrn' = EmptyMap]_vars

(***************************************************************************)
(* The year of a document by document and in the pivot.  A sheet without   *)
(* a dhlabid column gives metadata by URN only, and an evaluate response   *)
(* may name its documents by URN.                                          *)
(***************************************************************************)
YearResponses ==
  MemoResponses \cup {<<[docId |-> Urn1, topics |-> [t \in {TopicN} |-> 1]]>>}

YearParsedRows ==
  {ParseCorpusRows(<<[urn |-> Urn1, dhlabid |-> id, title |-> TitleA,
                      authors |-> <<>>, year |-> Year12]>>) : id \in {<<>>, Doc1}}

NextYear ==
  \/ HandleEvaluate
  \/ \E entries \in YearResponses : EvaluateResponse(entries)
  \/ \E meta \in ChartMetaLookups : BuildCorpusResponse(ParsedCorpusOf(meta))
  \/ \E parsed \in YearParsedRows : CorpusFileRows(parsed)
  \/ ToggleAggregateByYear
  \/ \E text \in MemoBinSizeTexts : SetYearBinSize(text)
  \/ \E key \in HeaderKeys(evaluationTable) : HandleSort(key)

SpecYear == Init /\ [][NextYear]_vars

\* the year the by-document table shows and sorts by for a document
ShownYear(i) ==
  MetaWithFallback(corpusMetaById, corpusMetaByUrn, Entries[i].docId, "year")

ShownYearIsNumeric(i) == ShownYear(i).tag = "string" /\ IsDigits(ShownYear(i).chars)

\* the pivot of the current state before the threshold
UnfilteredPivot ==
  TopicsTable(Entries, corpusMetaById, sortKey, sortDir, Num(0), yearBinSize,
              aggregatePercent)

(***************************************************************************)
(* C27: every document for which the by-document view finds a numeric year *)
(* (in corpusMetaById or, failing that, corpusMetaByUrn) is counted in the *)
(* pivot under the column of the bin of that year.                         *)
(***************************************************************************)
C27_PivotUsesShownYear ==
  evaluateData.present =>
    \A i \in DocIndices :
      ShownYearIsNumeric(i) =>
        LET s == BinSize(yearBinSize)
            label == BinLabel(BinStart(DigitsValue(ShownYear(i).chars), s), s)
        IN /\ label \in YearColumnLabels(UnfilteredPivot)
           /\ \A r \in Range(UnfilteredPivot.rows) :
                Get(r.values, label, 0) >= CountOf(i, r.id)

(***************************************************************************)
(* Sorting the pivot by a percent column and by its count column.          *)
(***************************************************************************)
\* the pivot of the current state in percent, sorted by sKey in direction sDir
PercentPivotSortedBy(sKey, sDir) ==
  TopicsTable(Entries, corpusMetaById, sKey, sDir, totalThreshold, yearBinSize, TRUE)

PercentColumnsOf(table) ==
  {j \in 1..Len(table.columns) : table.columns[j].kind = "percent"}

(***************************************************************************)
(* C28: in the pivot, for every year bin, sorting by the percent column of *)
(* the bin gives the same row order as sorting by its count column in the  *)
(* same direction.                                                         *)
(***************************************************************************)
C28_PercentSortIsCountSort ==
  (evaluateData.present /\ aggregateByYear /\ aggregatePercent) =>
    \A j \in PercentColumnsOf(evaluationTable) :
      \A sDir \in {"asc", "desc"} :
        PercentPivotSortedBy(evaluationTable.columns[j].key, sDir).rows
          = PercentPivotSortedBy(evaluationTable.columns[j].year \o SuffixCount, sDir).rows

\* the pivot is sorted by a percent column in which the two word-groups have
\* different counts, and the word-group with more hits in the bin has hits in
\* another bin too
C28_Witness ==
  /\ evaluateData.present /\ aggregateByYear /\ aggregatePercent
  /\ Len(evaluationTable.rows) = 2
  /\ \E j \in PercentColumnsOf(evaluationTable) :
       /\ sortKey = evaluationTable.columns[j].key
       /\ \E a, b \in Range(evaluationTable.rows) :
            /\ Get(a.values, evaluationTable.columns[j].year, 0)
                 > Get(b.values, evaluationTable.columns[j].year, 0)
            /\ a.total > Get(a.values, evaluationTable.columns[j].year, 0)

(***************************************************************************)
(* The legend of the chart.                                                *)
(***************************************************************************)
\* the ids of the legend buttons, chartSeries.series.map(...) in the JSX, when
\* the set of hidden series is hidden and the table and the percent toggle are
\* the current ones
LegendIds(hidden) ==
  LET chart == ChartSeries(evaluationTable, aggregatePercent, hidden)
  IN IF chart.shown THEN {chart.series[i].id : i \in 1..Len(chart.series)}
     ELSE {}

(***************************************************************************)
(* C29: a series hidden by a click on its legend button still has a legend *)
(* button after the click, so that a second click can show it again.       *)
(***************************************************************************)
C29_HiddenSeriesKeepsLegendButton ==
  [][\A id \in Range(ChartTopics) :
       (id \notin hiddenSeries /\ ToggleHiddenSeries(id))
         => id \in LegendIds(hiddenSeries')]_vars

(***************************************************************************)
(* The sort key under header clicks, pivot toggles, bin sizes, the percent *)
(* toggle and new evaluation results, over one corpus.                     *)
(***************************************************************************)
NextKey ==
  \/ /\ corpusUrns = <<>>
     /\ \E meta \in ChartMetaLookups : BuildCorpusResponse(ParsedCorpusOf(meta))
  \/ HandleEvaluate
  \/ \E entries \in MemoResponses : EvaluateResponse(entries)
  \/ ToggleAggregateByYear
  \/ \E text \in MemoBinSizeTexts : SetYearBinSize(text)
  \/ SetAggregatePercent
  \/ \E key \in HeaderKeys(evaluationTable) : HandleSort(key)

SpecKey == Init /\ [][NextKey]_vars

(***************************************************************************)
(* C30: whenever a table is shown, sortKey is a key that the comparator of *)
(* the current mode recognises: the identity column, the total, the        *)
(* metadata columns of the by-document table, or the key of a column of    *)
(* the current table.                                                      *)
(***************************************************************************)
C30_SortKeyIsRecognised == evaluateData.present => SortKeyRecognised
====
